---------------------------- MODULE Spec2Model ----------------------------
(***************************************************************************)
(* A model of stocklyzer's financial computation layer and its consumers:  *)
(*   - domain/models.py       FinancialPeriod, FinancialHistory,           *)
(*                            GrowthMetrics, PriceRange, StockInfo         *)
(*   - services/valuations/dcf.py   DiscountedCashFlow (WACC)              *)
(*   - utils/calculations.py  GrowthCalculator                             *)
(*   - utils/validators.py    is_valid_symbol                              *)
(*   - services/stock_service.py    YFinanceStockService                   *)
(*   - cli/commands/ticker.py, cli/formatters/stock_formatter.py           *)
(*                            the growth table and the ticker command      *)
(*   - cli/display/stock_renderer.py      the data-quality warnings        *)
(*   - cli/formatters/financial_table_formatter.py   the tables' growth    *)
(*                                                                         *)
(* Every component has its own specification (SpecPeriod, SpecGrowth,      *)
(* SpecWacc, SpecCalc, SpecMetrics, SpecRange, SpecSymbol, SpecDisplay,    *)
(* SpecCommand, SpecStock, SpecService, SpecHistory, SpecQuality,          *)
(* SpecTable).  A specification draws the component's inputs from bounded  *)
(* sets, applies the component's operations and leaves the variables of    *)
(* the other components at their idle values.                              *)
(*                                                                         *)
(* Numbers.  TLC has integers only, so                                     *)
(*   - a raw monetary amount is an integer number of half-cents            *)
(*     (RawPerUnit raw steps per currency unit), which lets an input carry *)
(*     a third decimal digit (x.xx5) and makes quantize(0.01) a rounding;  *)
(*   - a stored monetary amount (after quantize(Decimal('0.01'))) is an    *)
(*     integer number of cents;                                            *)
(*   - a growth rate (after quantize(Decimal('0.1'))) is an integer number *)
(*     of tenths of a percent;                                             *)
(*   - the DCF quantities are exact fractions <<numerator, denominator>>.  *)
(* Decimal's context rounds to 28 significant digits, which is exact for   *)
(* every monetary value and growth rate of the bounded inputs used here;   *)
(* the DCF quotients are kept exact, without that rounding.  quantize      *)
(* rounds half-even (the default context rounding).                        *)
(***************************************************************************)
EXTENDS Integers, Sequences, FiniteSets, TLC

VARIABLES
    raw_period,         \* SpecPeriod: the arguments given to FinancialPeriod(...)
    period,             \* SpecPeriod: the constructed FinancialPeriod
    annual_periods,     \* SpecGrowth: FinancialHistory.annual_periods
    quarterly_periods,  \* SpecGrowth: FinancialHistory.quarterly_periods
    reported,           \* SpecGrowth: the statement row the upstream data reports
    growth,             \* SpecGrowth: the last growth query and its result
    ticker,             \* SpecWacc: the yfinance ticker given to DiscountedCashFlow
    tnx,                \* SpecWacc: what the ^TNX history fetch returns
    required_return,    \* SpecWacc: DiscountedCashFlow.required_return
    wacc,               \* SpecWacc: the outcome of the WACC calculation
    calc_period,        \* SpecCalc: the period argument of calculate_growth
    hist_start,         \* SpecCalc: what ticker.history(period=period) returns
    hist_end,           \* SpecCalc: what ticker.history(period="1d") returns
    calc_result,        \* SpecCalc: what calculate_growth returned
    windows,            \* SpecMetrics: the histories fetched for each lookback window
    growth_metrics,     \* SpecMetrics: what _calculate_growth_metrics returned
    range_args,         \* SpecRange: the arguments given to PriceRange(...)
    price_range,        \* SpecRange: the constructed PriceRange or the error raised
    current_price,      \* SpecRange: the price given to calculate_position_in_range
    position,           \* SpecRange: what calculate_position_in_range returned
    symbol,             \* SpecSymbol: the argument of is_valid_symbol
    is_valid,           \* SpecSymbol: what is_valid_symbol returned
    growth_values,      \* SpecDisplay: the growth values handed to the display
    shown,              \* SpecDisplay: the consumer that ran and the growth rows it produced
    argv_symbol,        \* SpecCommand: the SYMBOL argument of the ticker command
    provider,           \* SpecCommand: what the data provider answers
    command,            \* SpecCommand: the outcome of the ticker command
    stock_args,         \* SpecStock: the arguments given to StockInfo(...)
    stock_info,         \* SpecStock: the constructed StockInfo or the error raised
    pays_dividend,      \* SpecStock: what the pays_dividend property returned
    upstream,           \* SpecService: what the yfinance ticker of the service returns
    service_result,     \* SpecService: what get_stock_info returned
    statement_data,     \* SpecHistory: the statements the ticker returns
    period_kwargs,      \* SpecHistory: the arguments handed to FinancialPeriod(...), per column
    history_result,     \* SpecHistory: what _calculate_financial_history returned
    report_info,        \* SpecQuality: the StockInfo given to render_all
    report,             \* SpecQuality: what render_all computed and printed
    table_metric,       \* SpecTable: the balance-sheet metric of the table row
    table_periods,      \* SpecTable: the periods both growth calculations are given
    table_series        \* SpecTable: the growth series of the formatter and of the history

vars == <<raw_period, period, annual_periods, quarterly_periods, reported, growth,
          ticker, tnx, required_return, wacc,
          calc_period, hist_start, hist_end, calc_result,
          windows, growth_metrics,
          range_args, price_range, current_price, position,
          symbol, is_valid,
          growth_values, shown,
          argv_symbol, provider, command,
          stock_args, stock_info, pays_dividend,
          upstream, service_result,
          statement_data, period_kwargs, history_result,
          report_info, report,
          table_metric, table_periods, table_series>>

periodVars == <<raw_period, period>>
growthVars == <<annual_periods, quarterly_periods, reported, growth>>
waccVars == <<ticker, tnx, required_return, wacc>>
calcVars == <<calc_period, hist_start, hist_end, calc_result>>
metricsVars == <<windows, growth_metrics>>
rangeVars == <<range_args, price_range, current_price, position>>
symbolVars == <<symbol, is_valid>>
displayVars == <<growth_values, shown>>
commandVars == <<argv_symbol, provider, command>>
stockVars == <<stock_args, stock_info, pays_dividend>>
serviceVars == <<upstream, service_result>>
historyVars == <<statement_data, period_kwargs, history_result>>
qualityVars == <<report_info, report>>
tableVars == <<table_metric, table_periods, table_series>>

(* The variables of the core components and of the service and CLI layer.  *)
coreVars == <<periodVars, growthVars, waccVars, calcVars>>
appVars == <<metricsVars, rangeVars, symbolVars, displayVars, commandVars, stockVars, serviceVars, historyVars, qualityVars, tableVars>>

----------------------------------------------------------------------------
(* Optional values: Python's None, a number, a Decimal NaN.                *)

None == [tag |-> "None"]

NaN == [tag |-> "NaN"]

Num(v) == [tag |-> "Num", v |-> v]

IsNum(x) == x.tag = "Num"

Abs(n) == IF n < 0 THEN -n ELSE n

Sign(n) == IF n < 0 THEN -1 ELSE IF n > 0 THEN 1 ELSE 0

Max(a, b) == IF a >= b THEN a ELSE b

Min(a, b) == IF a <= b THEN a ELSE b

(* n / d rounded to an integer, ties to the even neighbour: what           *)
(* Decimal.quantize does under the default context (ROUND_HALF_EVEN).      *)
RoundHalfEven(n, d) ==
    LET an == Abs(n)
        ad == Abs(d)
        q  == an \div ad
        r  == an % ad
        up == IF 2 * r > ad THEN 1
              ELSE IF 2 * r < ad THEN 0
              ELSE IF q % 2 = 1 THEN 1 ELSE 0
    IN  Sign(n) * Sign(d) * (q + up)

----------------------------------------------------------------------------
(* FinancialPeriod (domain/models.py)                                      *)

RawPerUnit == 2 * 100       \* raw steps (half-cents) per currency unit

Units(n) == n * RawPerUnit  \* the raw amount of n whole currency units

MILLION == 1000000

MonetaryFields ==
    {"total_revenue", "net_income", "total_assets", "total_liabilities", "total_equity"}

(* value.quantize(Decimal('0.01')) of a raw amount: cents.                 *)
QuantizeCents(raw) == RoundHalfEven(raw, RawPerUnit \div 100)

(* (value / 1_000_000).quantize(Decimal('0.01')) of a raw amount: cents.   *)
QuantizeMillions(raw) == RoundHalfEven(raw, (RawPerUnit \div 100) * MILLION)

(* The body of the loop of FinancialPeriod.__post_init__ for one field:    *)
(*   if value is not None:                                                 *)
(*       if value > 1_000_000: value = value / 1_000_000                   *)
(*       setattr(self, field_name, value.quantize(Decimal('0.01')))        *)
NormalizeField(value) ==
    IF value = None THEN None
    ELSE IF value.v > Units(MILLION) THEN Num(QuantizeMillions(value.v))
    ELSE Num(QuantizeCents(value.v))

(* A FinancialPeriod after __post_init__: the five monetary fields         *)
(* are normalised, shares_outstanding is kept as given.                    *)
FinancialPeriod(raw) ==
    [f \in DOMAIN raw |->
        IF f \in MonetaryFields THEN NormalizeField(raw[f]) ELSE raw[f]]

(* The dataclass defaults: every field None.                               *)
EmptyRaw ==
    [total_revenue |-> None, net_income |-> None, total_assets |-> None,
     total_liabilities |-> None, total_equity |-> None, shares_outstanding |-> None]

(* The raw amounts a FinancialPeriod is constructed from in SpecPeriod:    *)
(* amounts below, at and above the 1,000,000 threshold, of both signs,     *)
(* with and without a third decimal digit.                                 *)
RawAmounts ==
    {None,
     Num(0),
     Num(Units(12) + 69),            \* 12.345
     Num(Units(94930)),              \* 94,930
     Num(Units(MILLION)),            \* 1,000,000: not above the threshold
     Num(Units(1234567)),            \* 1,234,567
     Num(Units(9500000)),            \* 9,500,000
     Num(-Units(9500000))}           \* -9,500,000

RawShares == {None, Num(1000)}

PeriodIdle == raw_period = None /\ period = None

(* FinancialPeriod(date, total_revenue=..., ..., shares_outstanding=...)   *)
Construct ==
    /\ period = None
    /\ \E rev \in RawAmounts, ni \in RawAmounts, ta \in RawAmounts,
          tl \in RawAmounts, te \in RawAmounts, sh \in RawShares :
          LET raw == [total_revenue |-> rev, net_income |-> ni, total_assets |-> ta,
                      total_liabilities |-> tl, total_equity |-> te,
                      shares_outstanding |-> sh]
          IN  /\ raw_period' = raw
              /\ period' = FinancialPeriod(raw)
    /\ UNCHANGED <<growthVars, waccVars, calcVars, appVars>>

----------------------------------------------------------------------------
(* FinancialHistory (domain/models.py)                                     *)

MaxPeriods == 3     \* periods held by a history, annual and quarterly together

(* The raw amounts of the periods of a history, in whole currency units.   *)
GrowthAmounts ==
    {None, Num(Units(-100)), Num(Units(-50)), Num(0), Num(Units(3)),
     Num(Units(16)), Num(Units(17))}

(* One entry of the loop of _calculate_growth_rates (lines 94-101), in     *)
(* tenths of a percent:                                                    *)
(*   ((current - previous) / previous) * 100, quantize(Decimal('0.1'))     *)
GrowthEntry(current, previous) ==
    IF current # None /\ previous # None /\ previous.v # 0
    THEN Num(RoundHalfEven(1000 * (current.v - previous.v), previous.v))
    ELSE None

(* The loop `for i in range(len(periods) - 1)` from index i on.  Sequences *)
(* are 1-based: periods[i] is the code's periods[i - 1].                   *)
RECURSIVE GrowthLoop(_, _, _, _)
GrowthLoop(periods, metric, i, growth_rates) ==
    IF i > Len(periods) - 1 THEN growth_rates
    ELSE GrowthLoop(periods, metric, i + 1,
                    Append(growth_rates,
                           GrowthEntry(periods[i][metric], periods[i + 1][metric])))

(* The mutant of _calculate_growth_rates: the loop runs over               *)
(* range(len(periods)) and compares the last period with itself.           *)
RECURSIVE GrowthLoopAll(_, _, _, _)
GrowthLoopAll(periods, metric, i, growth_rates) ==
    IF i > Len(periods) THEN growth_rates
    ELSE GrowthLoopAll(periods, metric, i + 1,
                       Append(growth_rates,
                              GrowthEntry(periods[i][metric],
                                          periods[Min(i + 1, Len(periods))][metric])))

CalculateGrowthRatesAll(periods, metric) ==
    IF Len(periods) < 2 THEN <<>> ELSE GrowthLoopAll(periods, metric, 1, <<>>)

(* The mutant of _calculate_growth_rates: a zero base is not guarded and   *)
(* yields a growth of 0.                                                   *)
CalculateGrowthRatesZeroBase(periods, metric) ==
    [i \in 1..(Len(periods) - 1) |->
        LET current  == periods[i][metric]
            previous == periods[i + 1][metric]
        IN  IF current # None /\ previous # None
            THEN IF previous.v = 0 THEN Num(0) ELSE GrowthEntry(current, previous)
            ELSE None]

(* FinancialHistory._calculate_growth_rates(periods, metric)               *)
CalculateGrowthRates(periods, metric) ==
    IF Len(periods) < 2 THEN <<>> ELSE GrowthLoop(periods, metric, 1, <<>>)

PeriodsOf(period_type) ==
    IF period_type = "annual" THEN annual_periods ELSE quarterly_periods

PeriodTypes == {"annual", "quarterly"}

GrowthIdle ==
    /\ annual_periods = <<>>
    /\ quarterly_periods = <<>>
    /\ reported = "total_revenue"
    /\ growth = None

(* The aggregation step appends one more (older) period to a list; the     *)
(* period reports the row `reported` and leaves the other fields None.     *)
AddAnnual ==
    /\ growth = None
    /\ Len(annual_periods) + Len(quarterly_periods) < MaxPeriods
    /\ \E amount \in GrowthAmounts :
          annual_periods' =
              Append(annual_periods,
                     FinancialPeriod([EmptyRaw EXCEPT ![reported] = amount]))
    /\ UNCHANGED <<quarterly_periods, reported, growth, periodVars, waccVars, calcVars, appVars>>

AddQuarterly ==
    /\ growth = None
    /\ Len(annual_periods) + Len(quarterly_periods) < MaxPeriods
    /\ \E amount \in GrowthAmounts :
          quarterly_periods' =
              Append(quarterly_periods,
                     FinancialPeriod([EmptyRaw EXCEPT ![reported] = amount]))
    /\ UNCHANGED <<annual_periods, reported, growth, periodVars, waccVars, calcVars, appVars>>

(* get_revenue_growth(period_type)                                         *)
GetRevenueGrowth ==
    /\ \E period_type \in PeriodTypes :
          growth' = [call |-> "get_revenue_growth", period_type |-> period_type,
                     series |-> [total_revenue |->
                         CalculateGrowthRates(PeriodsOf(period_type), "total_revenue")]]
    /\ UNCHANGED <<annual_periods, quarterly_periods, reported, periodVars, waccVars, calcVars, appVars>>

(* get_net_income_growth(period_type)                                      *)
GetNetIncomeGrowth ==
    /\ \E period_type \in PeriodTypes :
          growth' = [call |-> "get_net_income_growth", period_type |-> period_type,
                     series |-> [net_income |->
                         CalculateGrowthRates(PeriodsOf(period_type), "net_income")]]
    /\ UNCHANGED <<annual_periods, quarterly_periods, reported, periodVars, waccVars, calcVars, appVars>>

(* get_balance_sheet_growth(): assets, liabilities and equity of the       *)
(* annual periods.                                                         *)
GetBalanceSheetGrowth ==
    /\ growth' = [call |-> "get_balance_sheet_growth", period_type |-> "annual",
                  series |->
                      [total_assets |->
                           CalculateGrowthRates(annual_periods, "total_assets"),
                       total_liabilities |->
                           CalculateGrowthRates(annual_periods, "total_liabilities"),
                       total_equity |->
                           CalculateGrowthRates(annual_periods, "total_equity")]]
    /\ UNCHANGED <<annual_periods, quarterly_periods, reported, periodVars, waccVars, calcVars, appVars>>

----------------------------------------------------------------------------
(* Exact fractions <<numerator, denominator>>, denominator > 0, reduced.   *)

RECURSIVE GCD(_, _)
GCD(a, b) == IF b = 0 THEN a ELSE GCD(b, a % b)

Frac(n, d) ==
    LET g == GCD(Abs(n), Abs(d))
    IN  <<(Sign(d) * n) \div g, Abs(d) \div g>>

FAdd(x, y) == Frac(x[1] * y[2] + y[1] * x[2], x[2] * y[2])

FSub(x, y) == Frac(x[1] * y[2] - y[1] * x[2], x[2] * y[2])

FMul(x, y) ==
    LET a == Frac(x[1], y[2])
        b == Frac(y[1], x[2])
    IN  Frac(a[1] * b[1], a[2] * b[2])

FDiv(x, y) == FMul(x, Frac(y[2], y[1]))

FLeq(x, y) == x[1] * y[2] <= y[1] * x[2]

----------------------------------------------------------------------------
(* Decimal arithmetic: a Decimal is Num(fraction) or NaN; an operation     *)
(* that raises yields Raise(exception).  A quiet NaN operand makes the     *)
(* result NaN without raising.                                             *)

Absent == [tag |-> "Absent"]    \* a key or row that is not there

Raise(e) == [tag |-> "Raise", exc |-> e]

IsRaise(x) == x.tag = "Raise"

(* Decimal(str(x)) of a looked-up value: None (also what Series.get and    *)
(* dict.get give for a missing key) raises InvalidOperation, a float nan   *)
(* becomes Decimal('NaN').                                                 *)
DecimalOfStr(x) ==
    IF x = Absent \/ x = None THEN Raise("InvalidOperation")
    ELSE IF x = NaN THEN NaN
    ELSE Num(x.v)

DecAdd(a, b) == IF a = NaN \/ b = NaN THEN NaN ELSE Num(FAdd(a.v, b.v))

DecSub(a, b) == IF a = NaN \/ b = NaN THEN NaN ELSE Num(FSub(a.v, b.v))

DecMul(a, b) == IF a = NaN \/ b = NaN THEN NaN ELSE Num(FMul(a.v, b.v))

DecDiv(a, b) ==
    IF a = NaN \/ b = NaN THEN NaN
    ELSE IF b.v[1] = 0
         THEN IF a.v[1] = 0 THEN Raise("InvalidOperation") ELSE Raise("DivisionByZero")
    ELSE Num(FDiv(a.v, b.v))

(* pd.notna(x): false for None and for nan.                                *)
NotNa(x) == x.tag = "Num"

----------------------------------------------------------------------------
(* DiscountedCashFlow (services/valuations/dcf.py)                         *)
(* Statement amounts are in millions; one column of `columns` holds the    *)
(* rows of financials, balance_sheet and cash_flow of one reporting        *)
(* period, columns[1] being the most recent period.                        *)

MaxCols == 2        \* reporting periods (columns) of the statements

Amount(n) == Num(Frac(n, 1))

(* _get_total_debt(balance_sheet)                                          *)
GetTotalDebt(balance_sheet) ==
    LET long_term_debt == balance_sheet.long_term_debt
        current_debt   == balance_sheet.current_debt
    IN  IF NotNa(long_term_debt) /\ NotNa(current_debt)
        THEN DecAdd(long_term_debt, current_debt)
        ELSE DecimalOfStr(balance_sheet.total_debt)

(* _get_tax_rate(financial): .loc raises KeyError for a missing row.       *)
GetTaxRate(financial) ==
    IF financial.pretax_income = Absent \/ financial.tax_provision = Absent
    THEN Raise("KeyError")
    ELSE DecDiv(DecimalOfStr(financial.tax_provision),
                DecimalOfStr(financial.pretax_income))

(* The interest expense of a column (lines 69-78): the income-statement    *)
(* row, else the cash-flow row, else None (`continue`).                    *)
InterestExpense(col) ==
    IF col.interest_expense # Absent /\ NotNa(col.interest_expense)
    THEN col.interest_expense
    ELSE IF col.interest_paid # Absent /\ NotNa(col.interest_paid)
    THEN col.interest_paid
    ELSE None

(* The body of the loop of _get_cost_of_debt for a column that has an      *)
(* interest expense (lines 80-89).                                         *)
CostOfDebtOf(col, interest_expense) ==
    LET total_debt == GetTotalDebt(col)
        pretax     == IF IsRaise(total_debt) THEN total_debt
                      ELSE DecDiv(DecimalOfStr(interest_expense), total_debt)
        tax_rate   == GetTaxRate(col)
    IN  IF IsRaise(pretax) THEN pretax
        ELSE IF IsRaise(tax_rate) THEN tax_rate
        ELSE DecMul(pretax, DecSub(Amount(1), tax_rate))

(* _get_cost_of_debt() from column i on: `for col in                       *)
(* self.ticker.financials.columns`.  The result carries the column the     *)
(* cost of debt was computed from (logged as `year`), 0 when none.         *)
RECURSIVE CostOfDebtScan(_, _)
CostOfDebtScan(columns, i) ==
    IF i > Len(columns) THEN [value |-> None, col |-> 0]
    ELSE IF InterestExpense(columns[i]) = None THEN CostOfDebtScan(columns, i + 1)
    ELSE [value |-> CostOfDebtOf(columns[i], InterestExpense(columns[i])),
          col |-> i]

(* The mutant of _get_cost_of_debt: a column without interest expense      *)
(* ends the scan (`break`) instead of being skipped (`continue`).          *)
GetCostOfDebtNoSkip(columns) ==
    IF Len(columns) = 0 \/ InterestExpense(columns[1]) = None
    THEN [value |-> None, col |-> 0]
    ELSE CostOfDebtScan(columns, 1)

(* _get_cost_of_debt()                                                     *)
GetCostOfDebt(columns) == CostOfDebtScan(columns, 1)

(* _get_cost_of_equity(): beta is info.get("beta", 1.0); the ^TNX fetch    *)
(* follows; `treasury` is the latest close, Absent when the fetch fails    *)
(* or returns no rows.  `fetched` tells whether the fetch was issued.      *)
GetCostOfEquity(info, treasury, rr) ==
    LET beta == IF info.beta = Absent THEN Amount(1) ELSE DecimalOfStr(info.beta)
        treasury_10y == DecDiv(treasury, Amount(100))
    IN  IF IsRaise(beta) THEN [value |-> beta, fetched |-> FALSE]
        ELSE IF treasury = Absent THEN [value |-> Raise("FetchError"), fetched |-> TRUE]
        ELSE [value |-> DecAdd(treasury_10y,
                               DecMul(beta, DecSub(Num(rr), treasury_10y))),
              fetched |-> TRUE]

(* What calculate_weighted_average_cost_of_capital leaves behind: the      *)
(* returned value, the number of logger.error calls, the steps taken and   *)
(* the values of its locals (None where the step was not reached).         *)
Outcome(result, errors, trace, total_debt, cost_of_debt, cost_of_equity) ==
    [result |-> result, errors |-> errors, trace |-> trace,
     total_debt |-> total_debt, cost_of_debt |-> cost_of_debt,
     cost_of_equity |-> cost_of_equity]

(* The except branch: one logger.error, return None.                       *)
Failed(trace, total_debt, cost_of_debt, cost_of_equity) ==
    Outcome(None, 1, trace, total_debt, cost_of_debt, cost_of_equity)

(* Lines 34-36: the weights and the weighted sum.  A cost of debt of None  *)
(* raises TypeError in the multiplication.                                 *)
Combine(total_debt, market_cap, cost_of_debt, cost_of_equity) ==
    LET total_value == DecAdd(total_debt, market_cap)
        debt_weight == DecDiv(total_debt, total_value)
        equity_weight == DecDiv(market_cap, total_value)
    IN  IF IsRaise(debt_weight) THEN debt_weight
        ELSE IF cost_of_debt = None THEN Raise("TypeError")
        ELSE IF IsRaise(equity_weight) THEN equity_weight
        ELSE DecAdd(DecMul(debt_weight, cost_of_debt),
                    DecMul(equity_weight, cost_of_equity))

(* The statements as the code reads them: financials[col],                 *)
(* balance_sheet[col] and cash_flow[col] without the missing rows.         *)
Statements(t) ==
    [c \in DOMAIN t.columns |->
        [r \in DOMAIN t.columns[c] |->
            IF r \in t.missing THEN Absent ELSE t.columns[c][r]]]

(* The mutant of calculate_weighted_average_cost_of_capital: the cost of   *)
(* equity (beta, ^TNX fetch) and the cost of debt are computed before the  *)
(* market cap is read.                                                     *)
WaccYieldFirst(t, treasury, rr) ==
    LET noCod == [value |-> None, col |-> 0]
        t1 == <<"info", "balance_sheet">>
        coe == GetCostOfEquity(t.info, treasury, rr)
        t2 == t1 \o (IF coe.fetched THEN <<"beta", "tnx">> ELSE <<"beta">>)
        t3 == Append(t2, "cost_of_debt")
        t4 == Append(t3, "marketCap")
        t5 == Append(t4, "total_debt")
        market_cap == IF t.info.marketCap = Absent THEN Raise("KeyError")
                      ELSE DecimalOfStr(t.info.marketCap)
        statements == Statements(t)
        total_debt == GetTotalDebt(statements[1])
        cod == GetCostOfDebt(statements)
        wacc_value == Combine(total_debt, market_cap, cod.value, coe.value)
    IN  IF Len(t.columns) = 0 THEN Failed(t1, None, noCod, None)
        ELSE IF IsRaise(coe.value) THEN Failed(t2, None, noCod, None)
        ELSE IF IsRaise(cod.value)
             THEN Failed(t3, None, [value |-> None, col |-> cod.col], coe.value)
        ELSE IF IsRaise(market_cap) THEN Failed(t4, None, cod, coe.value)
        ELSE IF IsRaise(total_debt) THEN Failed(t5, None, cod, coe.value)
        ELSE IF IsRaise(wacc_value)
             THEN Failed(Append(t5, "combine"), total_debt, cod, coe.value)
        ELSE Outcome(wacc_value, 0, Append(t5, "combine"), total_debt, cod, coe.value)

(* calculate_weighted_average_cost_of_capital()                            *)
Wacc(t, treasury, rr) ==
    LET noCod == [value |-> None, col |-> 0]
        t1 == <<"info", "balance_sheet">>
        t2 == Append(t1, "marketCap")
        t3 == Append(t2, "total_debt")
        t4 == Append(t3, "cost_of_debt")
        market_cap == IF t.info.marketCap = Absent THEN Raise("KeyError")
                      ELSE DecimalOfStr(t.info.marketCap)
        statements == Statements(t)
        total_debt == GetTotalDebt(statements[1])
        cod == GetCostOfDebt(statements)
        coe == GetCostOfEquity(t.info, treasury, rr)
        t5 == t4 \o (IF coe.fetched THEN <<"beta", "tnx">> ELSE <<"beta">>)
        wacc_value == Combine(total_debt, market_cap, cod.value, coe.value)
    IN  IF Len(t.columns) = 0 THEN Failed(t1, None, noCod, None)
        ELSE IF IsRaise(market_cap) THEN Failed(t2, None, noCod, None)
        ELSE IF IsRaise(total_debt) THEN Failed(t3, None, noCod, None)
        ELSE IF IsRaise(cod.value)
             THEN Failed(t4, total_debt, [value |-> None, col |-> cod.col], None)
        ELSE IF IsRaise(coe.value) THEN Failed(t5, total_debt, cod, None)
        ELSE IF IsRaise(wacc_value)
             THEN Failed(Append(t5, "combine"), total_debt, cod, coe.value)
        ELSE Outcome(wacc_value, 0, Append(t5, "combine"), total_debt, cod, coe.value)

(* The inputs of SpecWacc.  A row that a statement has holds a number or  *)
(* nan in each column; a row that a statement lacks (`missing`) is absent  *)
(* from every column.                                                      *)

InterestRows ==
    {[interest_expense |-> NaN, interest_paid |-> NaN],
     [interest_expense |-> Amount(800), interest_paid |-> NaN],
     [interest_expense |-> NaN, interest_paid |-> Amount(600)]}

DebtRows ==
    {[long_term_debt |-> Amount(30000), current_debt |-> Amount(10000),
      total_debt |-> NaN],
     [long_term_debt |-> Amount(15000), current_debt |-> Amount(5000),
      total_debt |-> Amount(20000)],
     [long_term_debt |-> NaN, current_debt |-> NaN, total_debt |-> Amount(25000)],
     [long_term_debt |-> NaN, current_debt |-> Amount(5000), total_debt |-> NaN]}

TaxRows ==
    {[pretax_income |-> Amount(10000), tax_provision |-> Amount(2100)],
     [pretax_income |-> Amount(0), tax_provision |-> Amount(0)]}

Column(i, d, x) ==
    [interest_expense |-> i.interest_expense, interest_paid |-> i.interest_paid,
     long_term_debt |-> d.long_term_debt, current_debt |-> d.current_debt,
     total_debt |-> d.total_debt,
     pretax_income |-> x.pretax_income, tax_provision |-> x.tax_provision]

Columns == {Column(i, d, x) : i \in InterestRows, d \in DebtRows, x \in TaxRows}

MissingRows ==
    {{},
     {"pretax_income"},
     {"tax_provision"},
     {"interest_expense"},
     {"total_debt"},
     {"long_term_debt", "current_debt", "total_debt"}}

Infos ==
    {[marketCap |-> Absent, beta |-> Amount(1)],
     [marketCap |-> Amount(2000000), beta |-> Absent],
     [marketCap |-> Amount(2000000), beta |-> None],
     [marketCap |-> Amount(2000000), beta |-> Num(Frac(12, 10))]}

TreasuryCloses == {Absent, Num(Frac(45, 10))}

RequiredReturns == {Frac(1, 10), Frac(9, 100)}

WaccIdle ==
    /\ ticker = None
    /\ tnx = Absent
    /\ required_return = Frac(1, 10)
    /\ wacc = None

(* DiscountedCashFlow(ticker).calculate_weighted_average_cost_of_capital() *)
CalculateWacc ==
    /\ wacc = None
    /\ wacc' = Wacc(ticker, tnx, required_return)
    /\ UNCHANGED <<ticker, tnx, required_return, periodVars, growthVars, calcVars, appVars>>

----------------------------------------------------------------------------
(* GrowthCalculator (utils/calculations.py)                                *)
(* A history is Raise(e) when the fetch fails, Empty, or its rows; of the  *)
(* rows calculate_growth reads the date of the first one (here its age in  *)
(* days before now) and one Close (Absent when the frame has no Close      *)
(* column).  Prices are in cents.                                          *)

DAYS_PER_YEAR == 365

MaxAgeSteps == 42   \* the oldest first row, in steps of AgeStep days

AgeStep == DAYS_PER_YEAR \div 5

Empty == [tag |-> "Empty"]

Pending == [tag |-> "Pending"]

Rows(age, close) == [tag |-> "Rows", age |-> age, close |-> close]

LookbackPeriods == {"1y", "2y", "3y", "5y", "10y"}

(* _period_to_years(period): period_map.get(period.lower(), 1)             *)
PeriodToYears(p) ==
    CASE p = "1y" -> 1
      [] p = "2y" -> 2
      [] p = "5y" -> 5
      [] p = "10y" -> 10
      [] OTHER -> 1

(* timedelta(days=required_years * 365 * 0.8), in days.                    *)
RequiredDays(required_years) == (required_years * DAYS_PER_YEAR * 8) \div 10

(* The mutant of calculate_growth: the exception of a failed  *)
(* fetch or of a missing Close column reaches the caller.                  *)
CalculateGrowthPropagates(p, start, end) ==
    IF IsRaise(start) THEN start
    ELSE IF IsRaise(end) THEN end
    ELSE IF start = Empty \/ end = Empty THEN None
    ELSE IF start.age < RequiredDays(PeriodToYears(p)) THEN None
    ELSE IF start.close = Absent \/ end.close = Absent THEN Raise("KeyError")
    ELSE IF start.close.v <= 0 THEN None
    ELSE Num(Frac((end.close.v - start.close.v) * 100, start.close.v))

(* The mutant of calculate_growth: the change is taken relative to the     *)
(* latest close.                                                           *)
CalculateGrowthOverLatest(p, start, end) ==
    IF IsRaise(start) \/ IsRaise(end) THEN None
    ELSE IF start = Empty \/ end = Empty THEN None
    ELSE IF start.age < RequiredDays(PeriodToYears(p)) THEN None
    ELSE IF start.close = Absent \/ end.close = Absent THEN None
    ELSE IF start.close.v <= 0 THEN None
    ELSE Num(Frac((end.close.v - start.close.v) * 100, end.close.v))

(* calculate_growth(ticker, period): any exception is caught and logged    *)
(* as a warning, and None is returned.                                     *)
(*   actual_start_date > required_date  iff  the first row is younger      *)
(*   than the required days.                                               *)
CalculateGrowth(p, start, end) ==
    IF IsRaise(start) \/ IsRaise(end) THEN None
    ELSE IF start = Empty \/ end = Empty THEN None
    ELSE IF start.age < RequiredDays(PeriodToYears(p)) THEN None
    ELSE IF start.close = Absent \/ end.close = Absent THEN None
    ELSE IF start.close.v <= 0 THEN None
    ELSE Num(Frac((end.close.v - start.close.v) * 100, start.close.v))

StartHistories ==
    {Raise("FetchError"), Empty}
    \cup {Rows(k * AgeStep, c) : k \in 0..MaxAgeSteps, c \in {Absent, Num(0), Num(5000), Num(10000)}}

EndHistories ==
    {Raise("FetchError"), Empty} \cup {Rows(0, c) : c \in {Absent, Num(8000), Num(15000)}}

CalcIdle ==
    /\ calc_period = "1y"
    /\ hist_start = Empty
    /\ hist_end = Empty
    /\ calc_result = Pending

(* await calculator.calculate_growth(ticker, period)                       *)
CallCalculateGrowth ==
    /\ calc_result = Pending
    /\ calc_result' = CalculateGrowth(calc_period, hist_start, hist_end)
    /\ UNCHANGED <<calc_period, hist_start, hist_end, periodVars, growthVars, waccVars, appVars>>

----------------------------------------------------------------------------
(* GrowthMetrics (domain/models.py) and                                    *)
(* YFinanceStockService._calculate_growth_metrics (stock_service.py)       *)
(* A stored growth value is an integer number of hundredths of a percent.  *)

(* value.quantize(Decimal('0.01')) of a growth value, None kept.           *)
QuantizeHundredths(value) ==
    IF value = None THEN None
    ELSE Num(RoundHalfEven(100 * value.v[1], value.v[2]))

(* GrowthMetrics(...) with its __post_init__.                              *)
GrowthMetrics(one_year, two_years, three_years, five_years, ten_years) ==
    [one_year    |-> QuantizeHundredths(one_year),
     two_years   |-> QuantizeHundredths(two_years),
     three_years |-> QuantizeHundredths(three_years),
     five_years  |-> QuantizeHundredths(five_years),
     ten_years   |-> QuantizeHundredths(ten_years)]

(* GrowthMetrics.get_growth(period)                                        *)
GetGrowth(metrics, p) ==
    CASE p = "1y" -> metrics.one_year
      [] p = "2y" -> metrics.two_years
      [] p = "3y" -> metrics.three_years
      [] p = "5y" -> metrics.five_years
      [] p = "10y" -> metrics.ten_years
      [] OTHER -> None

(* _calculate_growth_metrics(): the five calls of calculate_growth, then   *)
(* GrowthMetrics(...); an exception of any of them ends in the except      *)
(* branch, which returns None.  w[p] holds what the two history fetches of *)
(* the call for period p return.                                           *)
CalculateGrowthMetrics(w) ==
    LET growth_1y  == CalculateGrowth("1y", w["1y"].start, w["1y"].end)
        growth_2y  == CalculateGrowth("2y", w["2y"].start, w["2y"].end)
        growth_3y  == CalculateGrowth("3y", w["3y"].start, w["3y"].end)
        growth_5y  == CalculateGrowth("5y", w["5y"].start, w["5y"].end)
        growth_10y == CalculateGrowth("10y", w["10y"].start, w["10y"].end)
    IN  IF \E g \in {growth_1y, growth_2y, growth_3y, growth_5y, growth_10y} : IsRaise(g)
        THEN None
        ELSE GrowthMetrics(growth_1y, growth_2y, growth_3y, growth_5y, growth_10y)

OldestAge == 10 * DAYS_PER_YEAR     \* a first row ten years back

WindowStarts ==
    {Raise("FetchError"), Empty,
     Rows(OldestAge, Num(5000)), Rows(OldestAge, Num(3000)),
     Rows(OldestAge, Absent)}

WindowEnds == {Raise("FetchError"), Rows(0, Num(8000))}

Windows == {[start |-> s, end |-> e] : s \in WindowStarts, e \in WindowEnds}

MetricsIdle ==
    /\ windows = [p \in LookbackPeriods |-> [start |-> Empty, end |-> Empty]]
    /\ growth_metrics = Pending

(* growth_metrics = await self._calculate_growth_metrics()                 *)
CallCalculateGrowthMetrics ==
    /\ growth_metrics = Pending
    /\ growth_metrics' = CalculateGrowthMetrics(windows)
    /\ UNCHANGED <<windows, coreVars, rangeVars, symbolVars, displayVars, commandVars, stockVars, serviceVars, historyVars, qualityVars, tableVars>>

----------------------------------------------------------------------------
(* PriceRange (domain/models.py)                                           *)
(* The arguments are raw amounts (half-cents), the stored fields and the   *)
(* price given to calculate_position_in_range are cents, the position is   *)
(* an exact fraction.                                                      *)

(* The mutant of PriceRange: equal 52-week bounds are accepted.            *)
PriceRangeAcceptsEqual(week_52_low, week_52_high, day_low, day_high) ==
    IF week_52_low > week_52_high THEN Raise("ValueError")
    ELSE IF day_low > day_high THEN Raise("ValueError")
    ELSE [tag          |-> "PriceRange",
          week_52_low  |-> QuantizeCents(week_52_low),
          week_52_high |-> QuantizeCents(week_52_high),
          day_low      |-> QuantizeCents(day_low),
          day_high     |-> QuantizeCents(day_high)]

(* PriceRange(...) with its __post_init__: the two checks on the values as *)
(* given, then the four quantize calls.                                    *)
PriceRange(week_52_low, week_52_high, day_low, day_high) ==
    IF week_52_low >= week_52_high THEN Raise("ValueError")
    ELSE IF day_low > day_high THEN Raise("ValueError")
    ELSE [tag          |-> "PriceRange",
          week_52_low  |-> QuantizeCents(week_52_low),
          week_52_high |-> QuantizeCents(week_52_high),
          day_low      |-> QuantizeCents(day_low),
          day_high     |-> QuantizeCents(day_high)]

(* The mutant of calculate_position_in_range: the position is not clamped. *)
CalculatePositionUnclamped(range, price) ==
    IF range.week_52_high <= range.week_52_low THEN Frac(1, 2)
    ELSE Frac(price - range.week_52_low, range.week_52_high - range.week_52_low)

(* PriceRange.calculate_position_in_range(current_price)                   *)
CalculatePositionInRange(range, price) ==
    IF range.week_52_high <= range.week_52_low THEN Frac(1, 2)
    ELSE LET pos == Frac(price - range.week_52_low,
                         range.week_52_high - range.week_52_low)
             lower == IF FLeq(Frac(1, 1), pos) THEN Frac(1, 1) ELSE pos
         IN  IF FLeq(lower, Frac(0, 1)) THEN Frac(0, 1) ELSE lower

(* 50.00, 100.00, 100.005 and 200.00 as raw amounts.                       *)
RawPrices == {Units(50), Units(100), Units(100) + 1, Units(200)}

(* 90.00, 100.00, 125.00, 150.00, 200.00 and 500.00 in cents.              *)
Prices == {9000, 10000, 12500, 15000, 20000, 50000}

RangeIdle ==
    /\ range_args = None
    /\ price_range = Pending
    /\ current_price = None
    /\ position = Pending

(* PriceRange(week_52_low=..., week_52_high=..., day_low=..., day_high=...) *)
ConstructPriceRange ==
    /\ price_range = Pending
    /\ price_range' = PriceRange(range_args.week_52_low, range_args.week_52_high,
                                 range_args.day_low, range_args.day_high)
    /\ UNCHANGED <<range_args, current_price, position, coreVars, metricsVars, symbolVars, displayVars, commandVars, stockVars, serviceVars, historyVars, qualityVars, tableVars>>

(* price_range.calculate_position_in_range(current_price)                  *)
CallCalculatePositionInRange ==
    /\ price_range.tag = "PriceRange"
    /\ position = Pending
    /\ \E price \in Prices :
          /\ current_price' = Num(price)
          /\ position' = Num(CalculatePositionInRange(price_range, price))
    /\ UNCHANGED <<range_args, price_range, coreVars, metricsVars, symbolVars, displayVars, commandVars, stockVars, serviceVars, historyVars, qualityVars, tableVars>>

----------------------------------------------------------------------------
(* SymbolValidator (utils/validators.py)                                   *)
(* A str is Str(chars), chars a sequence of characters; the alphabet has   *)
(* an upper-case and a lower-case letter, a digit, a blank and "eszett"    *)
(* (the letter U+00DF), whose upper() is the two letters "SS".             *)

MaxSymbolLen == 6       \* characters of the longest argument

Str(chars) == [tag |-> "Str", chars |-> chars]

Bool(b) == [tag |-> "Bool", b |-> b]

Characters == {"A", "a", "1", " ", "eszett"}

Whitespace == {" "}

Alphabetic == {"A", "a", "S", "eszett"}

(* str.strip(): the leading and trailing whitespace is removed.            *)
RECURSIVE LStrip(_)
LStrip(chars) ==
    IF chars # <<>> /\ Head(chars) \in Whitespace THEN LStrip(Tail(chars)) ELSE chars

RECURSIVE RStrip(_)
RStrip(chars) ==
    IF chars # <<>> /\ chars[Len(chars)] \in Whitespace
    THEN RStrip(SubSeq(chars, 1, Len(chars) - 1))
    ELSE chars

Strip(chars) == RStrip(LStrip(chars))

(* str.upper(): character by character; eszett becomes "SS".               *)
UpperOf(ch) ==
    CASE ch = "a" -> <<"A">>
      [] ch = "eszett" -> <<"S", "S">>
      [] OTHER -> <<ch>>

RECURSIVE Upper(_)
Upper(chars) ==
    IF chars = <<>> THEN <<>> ELSE UpperOf(Head(chars)) \o Upper(Tail(chars))

(* str.isalpha(): at least one character and all of them alphabetic.       *)
IsAlpha(chars) ==
    /\ chars # <<>>
    /\ \A i \in DOMAIN chars : chars[i] \in Alphabetic

(* The mutant of is_valid_symbol: the length is taken before upper().      *)
IsValidSymbolLengthFirst(s) ==
    IF s.tag # "Str" THEN FALSE
    ELSE IF ~(1 <= Len(Strip(s.chars)) /\ Len(Strip(s.chars)) <= 5) THEN FALSE
    ELSE IsAlpha(Upper(Strip(s.chars)))

(* SymbolValidator.is_valid_symbol(symbol)                                 *)
IsValidSymbol(s) ==
    IF s.tag # "Str" THEN FALSE
    ELSE LET stripped == Upper(Strip(s.chars))
         IN  IF ~(1 <= Len(stripped) /\ Len(stripped) <= 5) THEN FALSE
             ELSE IF ~IsAlpha(stripped) THEN FALSE
             ELSE TRUE

(* The arguments: every str of up to MaxSymbolLen characters, None and an  *)
(* int.                                                                    *)
Symbols ==
    {None, Num(123)}
    \cup {Str(c) : c \in UNION {[1..n -> Characters] : n \in 0..MaxSymbolLen}}

SymbolIdle ==
    /\ symbol = None
    /\ is_valid = Pending

(* validator.is_valid_symbol(symbol)                                       *)
CallIsValidSymbol ==
    /\ is_valid = Pending
    /\ is_valid' = Bool(IsValidSymbol(symbol))
    /\ UNCHANGED <<symbol, coreVars, metricsVars, rangeVars, displayVars, commandVars, stockVars, serviceVars, historyVars, qualityVars, tableVars>>

----------------------------------------------------------------------------
(* The growth displays: display_stock_info (cli/commands/ticker.py) and    *)
(* StockDisplayFormatter.format_growth_data (cli/formatters/               *)
(* stock_formatter.py).  A growth value given to display_stock_info is an  *)
(* integer number of thousandths of a percent (stock_data holds unrounded  *)
(* values); a field of GrowthMetrics is in hundredths.  A row of the       *)
(* display is NoData or the value it shows.                                *)

Tolerance == 10         \* 0.01 in thousandths of a percent

NoData == [tag |-> "NoData"]

Shown(value, colour) == [tag |-> "Shown", value |-> value, colour |-> colour]

(* format_growth_value(growth_value), the same in both modules.            *)
FormatGrowthValue(growth_value) ==
    IF growth_value = None THEN NoData
    ELSE IF growth_value.v < 0 THEN Shown(growth_value.v, "red")
    ELSE Shown(growth_value.v, "green")

GrowthRows(growth_1y, growth_2y, growth_5y, growth_10y) ==
    [one_year   |-> FormatGrowthValue(growth_1y),
     two_years  |-> FormatGrowthValue(growth_2y),
     five_years |-> FormatGrowthValue(growth_5y),
     ten_years  |-> FormatGrowthValue(growth_10y)]

(* Whether two values given to display_stock_info are both present and     *)
(* closer than 0.01: `a is not None and b is not None and abs(a - b) <     *)
(* 0.01`.                                                                  *)
Alike(a, b) == a # None /\ b # None /\ Abs(a.v - b.v) < Tolerance

(* The growth part of display_stock_info(ticker, stock_data), lines        *)
(* 133-155: the 5Y/10Y check, then the 2Y/5Y check on what the first check *)
(* left, then the four rows.                                               *)
DisplayGrowth(stock_data) ==
    LET same_5_10 == Alike(stock_data.growth_5y, stock_data.growth_10y)
        growth_5y_a  == IF same_5_10 THEN None ELSE stock_data.growth_5y
        growth_10y_a == IF same_5_10 THEN None ELSE stock_data.growth_10y
        same_2_5 == Alike(stock_data.growth_2y, growth_5y_a)
        growth_2y  == IF same_2_5 THEN None ELSE stock_data.growth_2y
        growth_5y  == IF same_2_5 THEN None ELSE growth_5y_a
        growth_10y == IF same_2_5 THEN None ELSE growth_10y_a
    IN  GrowthRows(stock_data.growth_1y, growth_2y, growth_5y, growth_10y)

(* StockDisplayFormatter.format_growth_data(growth_metrics)                *)
FormatGrowthData(metrics) ==
    IF metrics = None
    THEN [one_year |-> NoData, two_years |-> NoData,
          five_years |-> NoData, ten_years |-> NoData]
    ELSE GrowthRows(metrics.one_year, metrics.two_years,
                    metrics.five_years, metrics.ten_years)

(* The GrowthMetrics the service builds from the same values.              *)
Decimal3(value) == IF value = None THEN None ELSE Num(Frac(value.v, 1000))

MetricsOf(values) ==
    IF values = None THEN None
    ELSE GrowthMetrics(Decimal3(values.growth_1y), Decimal3(values.growth_2y), None,
                       Decimal3(values.growth_5y), Decimal3(values.growth_10y))

(* None, 91.100, 91.105, 95.000 and -3.250 percent.                        *)
GrowthValues == {None, Num(91100), Num(91105), Num(95000), Num(-3250)}

DisplayIdle ==
    /\ growth_values = None
    /\ shown = Pending

(* display_stock_info(symbol, stock_data) in ticker_command                *)
CallDisplayStockInfo ==
    /\ shown = Pending
    /\ growth_values # None
    /\ shown' = [consumer |-> "display_stock_info", rows |-> DisplayGrowth(growth_values)]
    /\ UNCHANGED <<growth_values, coreVars, metricsVars, rangeVars, symbolVars, commandVars, stockVars, serviceVars, historyVars, qualityVars, tableVars>>

(* self.stock_formatter.format_growth_data(stock_info.growth_metrics) in   *)
(* StockRenderer.render_overview                                           *)
CallFormatGrowthData ==
    /\ shown = Pending
    /\ shown' = [consumer |-> "format_growth_data",
                 rows |-> FormatGrowthData(MetricsOf(growth_values))]
    /\ UNCHANGED <<growth_values, coreVars, metricsVars, rangeVars, symbolVars, commandVars, stockVars, serviceVars, historyVars, qualityVars, tableVars>>

----------------------------------------------------------------------------
(* ticker_command and get_stock_data (cli/commands/ticker.py)              *)
(* provider.info is Raise(e) or "ok", provider.hist is what                *)
(* history(period="2d") returns, provider.growth holds what the four       *)
(* nested calculate_growth calls of get_stock_data compute.  The outcome   *)
(* of the command has the provider fetches it issued, the messages it      *)
(* printed, the growth rows it displayed and its exit code.                *)

Result(fetches, output, displayed, exit_code) ==
    [fetches |-> fetches, output |-> output, displayed |-> displayed,
     exit_code |-> exit_code]

(* The fetches of calculate_growth("1y") ... calculate_growth("10y").      *)
GrowthFetches ==
    <<"history:1y", "history:1d", "history:2y", "history:1d",
      "history:5y", "history:1d", "history:10y", "history:1d">>

(* get_stock_data(ticker): the data or None, with the fetches issued and   *)
(* the messages printed.                                                   *)
GetStockData(p) ==
    IF IsRaise(p.info)
    THEN [data |-> None, fetches |-> <<"info">>, output |-> <<"Error fetching data">>]
    ELSE IF IsRaise(p.hist)
    THEN [data |-> None, fetches |-> <<"info", "history:2d">>,
          output |-> <<"Error fetching data">>]
    ELSE IF p.hist = Empty
    THEN [data |-> None, fetches |-> <<"info", "history:2d">>, output |-> <<>>]
    ELSE [data |-> p.growth, fetches |-> <<"info", "history:2d">> \o GrowthFetches,
          output |-> <<>>]

(* ticker_command(symbol): no check of the symbol precedes get_stock_data; *)
(* the function returns normally on every path, so the exit code is 0.     *)
TickerCommand(s, p) ==
    LET stock_data == GetStockData(p)
        fetching == <<"Fetching real stock data">>
    IN  IF stock_data.data # None
        THEN Result(stock_data.fetches \o <<"history:1y">>,
                    fetching \o stock_data.output \o <<"Price:">>,
                    DisplayGrowth(stock_data.data),
                    0)
        ELSE Result(stock_data.fetches,
                    fetching \o stock_data.output \o <<"Could not fetch data">>,
                    None,
                    0)

(* AAPL-like, a symbol with a digit, a symbol of six letters.              *)
CommandSymbols ==
    {Str(<<"A", "a", "A">>), Str(<<"A", "1">>), Str(<<"A", "A", "A", "A", "A", "A">>)}

Providers ==
    [info : {Raise("FetchError"), Str(<<"o", "k">>)},
     hist : {Raise("FetchError"), Empty, Rows(0, Num(8000))},
     growth : [growth_1y : {None, Num(91100)}, growth_2y : {None, Num(91100)},
               growth_5y : {None, Num(91100)}, growth_10y : {None, Num(95000)}]]

CommandIdle ==
    /\ argv_symbol = None
    /\ provider = None
    /\ command = Pending

(* slz ticker SYMBOL                                                       *)
RunTickerCommand ==
    /\ command = Pending
    /\ command' = TickerCommand(argv_symbol, provider)
    /\ UNCHANGED <<argv_symbol, provider, coreVars, metricsVars, rangeVars,
                   symbolVars, displayVars, stockVars, serviceVars, historyVars, qualityVars, tableVars>>

----------------------------------------------------------------------------
(* StockInfo (domain/models.py)                                            *)
(* A Decimal argument is Num(fraction); a stored (quantized) field is      *)
(* Num(n) with n an integer number of hundredths.                          *)

(* The mutant of StockInfo: the dividend fields are stored as whole units. *)
StockInfoWholeUnits(args) ==
    IF args.current_price.v[1] <= 0 THEN Raise("ValueError")
    ELSE IF args.symbol.chars = <<>> THEN Raise("ValueError")
    ELSE [args EXCEPT
            !.current_price  = QuantizeHundredths(@),
            !.change         = QuantizeHundredths(@),
            !.change_percent = QuantizeHundredths(@),
            !.dividend_yield = IF @ = None THEN None
                               ELSE Num(100 * RoundHalfEven(@.v[1], @.v[2])),
            !.dividend_rate  = IF @ = None THEN None
                               ELSE Num(100 * RoundHalfEven(@.v[1], @.v[2]))]

(* StockInfo(...) with its __post_init__: the checks of the price and the  *)
(* symbol, then the quantize calls; the other fields are kept as given.    *)
StockInfo(args) ==
    IF args.current_price.v[1] <= 0 THEN Raise("ValueError")
    ELSE IF args.symbol.chars = <<>> THEN Raise("ValueError")
    ELSE [args EXCEPT
            !.current_price  = QuantizeHundredths(@),
            !.change         = QuantizeHundredths(@),
            !.change_percent = QuantizeHundredths(@),
            !.dividend_yield = QuantizeHundredths(@),
            !.dividend_rate  = QuantizeHundredths(@)]

(* The mutant of pays_dividend: only the dividend rate counts.             *)
PaysDividendByRate(info) ==
    info.dividend_rate # None /\ info.dividend_rate.v > 0

(* StockInfo.pays_dividend                                                 *)
PaysDividend(info) ==
    \/ (info.dividend_rate # None /\ info.dividend_rate.v > 0)
    \/ (info.dividend_yield # None /\ info.dividend_yield.v > 0)

(* The arguments of StockInfo that the model keeps.                        *)
StockArgs(sym, price, change, pct, dividend_yield, dividend_rate, metrics, range, history, score) ==
    [tag |-> "StockInfo", symbol |-> sym, current_price |-> price,
     change |-> change, change_percent |-> pct,
     dividend_yield |-> dividend_yield, dividend_rate |-> dividend_rate,
     growth_metrics |-> metrics, price_range |-> range,
     financial_history |-> history, data_quality_score |-> score]

(* None, 0, 0.005, 0.015, 0.96, 2.345 and -1.                              *)
DividendValues ==
    {None, Num(Frac(0, 1)), Num(Frac(5, 1000)), Num(Frac(15, 1000)),
     Num(Frac(96, 100)), Num(Frac(2345, 1000)), Num(Frac(-1, 1))}

StockInputs ==
    {StockArgs(s, p, Num(Frac(-125, 100)), Num(Frac(-8264, 10000)), y, r,
               None, None, None, Frac(1, 1)) :
        s \in {Str(<<>>), Str(<<"A", "A">>)},
        p \in {Num(Frac(0, 1)), Num(Frac(150005, 1000))},
        y \in DividendValues, r \in DividendValues}

StockIdle ==
    /\ stock_args = None
    /\ stock_info = Pending
    /\ pays_dividend = Pending

(* StockInfo(symbol=..., ...)                                              *)
ConstructStockInfo ==
    /\ stock_info = Pending
    /\ stock_info' = StockInfo(stock_args)
    /\ UNCHANGED <<stock_args, pays_dividend, coreVars, metricsVars, rangeVars,
                   symbolVars, displayVars, commandVars, serviceVars, historyVars, qualityVars, tableVars>>

(* stock_info.pays_dividend                                                *)
ReadPaysDividend ==
    /\ stock_info.tag = "StockInfo"
    /\ pays_dividend = Pending
    /\ pays_dividend' = Bool(PaysDividend(stock_info))
    /\ UNCHANGED <<stock_args, stock_info, coreVars, metricsVars, rangeVars,
                   symbolVars, displayVars, commandVars, serviceVars, historyVars, qualityVars, tableVars>>

----------------------------------------------------------------------------
(* YFinanceStockService (stocklyzer/services/stock_service.py)             *)
(* The prices of the upstream rows are raw amounts (half-cents); the       *)
(* dividend values of the info dict are exact fractions.                   *)

FLt(x, y) == x[1] * y[2] < y[1] * x[2]

(* a or b, for two values of the info dict                                 *)
FirstTruthy(a, b) == IF a = None \/ a.v[1] = 0 THEN b ELSE a

(* _fetch_raw_data(): info and the two-day history; None when either       *)
(* fetch raises, when either is empty, or when info names no symbol.       *)
FetchRawData(u) ==
    IF IsRaise(u.info) THEN None
    ELSE IF IsRaise(u.hist) THEN None
    ELSE IF u.info = Empty \/ u.hist = Empty THEN None
    ELSE IF ~u.info.named THEN None
    ELSE [info |-> u.info, hist |-> u.hist]

(* The mutant of _calculate_price_range: its failures are not caught.      *)
CalculatePriceRangeUncaught(hist_52w, recent_hist) ==
    IF IsRaise(hist_52w) THEN hist_52w
    ELSE IF hist_52w = Empty THEN None
    ELSE PriceRange(hist_52w.low, hist_52w.high, recent_hist.low, recent_hist.high)

(* _calculate_price_range(recent_hist): None when the 52-week history is   *)
(* empty, and when the fetch or PriceRange(...) raises.                    *)
CalculatePriceRange(hist_52w, recent_hist) ==
    IF IsRaise(hist_52w) THEN None
    ELSE IF hist_52w = Empty THEN None
    ELSE LET range == PriceRange(hist_52w.low, hist_52w.high,
                                 recent_hist.low, recent_hist.high)
         IN  IF IsRaise(range) THEN None ELSE range

(* A statement DataFrame: its columns (period dates, the first the most    *)
(* recent), and the value each row of its index holds (the same in every   *)
(* column).  A frame without columns is empty.  A date is a year number.   *)
Frame(columns, cell) == [tag |-> "Frame", columns |-> columns, cell |-> cell]

ColumnSet(frame) == {frame.columns[i] : i \in DOMAIN frame.columns}

(* frame.loc[row, date]: KeyError when the frame lacks the row or the date *)
Loc(frame, row, date) ==
    IF row \notin DOMAIN frame.cell \/ date \notin ColumnSet(frame)
    THEN Raise("KeyError")
    ELSE frame.cell[row]

(* value = None; if names[1] in frame.index: value = frame.loc[names[1],   *)
(* date]; elif names[2] in frame.index: ...  The first name the index has  *)
(* is read, whatever its value.                                            *)
Lookup(frame, names, date) ==
    LET present == SelectSeq(names, LAMBDA n : n \in DOMAIN frame.cell)
    IN  IF present = <<>> THEN None ELSE Loc(frame, Head(present), date)

(* operating_cash_flow + capex, on floats                                  *)
AddFloats(a, b) == IF a = NaN \/ b = NaN THEN NaN ELSE Num(a.v + b.v)

(* Decimal(str(value)) if value is not None and not pd.isna(value) else    *)
(* None                                                                    *)
ToDecimal(value) == IF value = None \/ value = NaN THEN None ELSE value

(* The mutant of FreeCashFlow: without capital expenditure the free cash   *)
(* flow is the operating cash flow.                                        *)
FreeCashFlowAssumed(cash_flow, operating_cash_flow, date) ==
    IF "Free Cash Flow" \in DOMAIN cash_flow.cell
    THEN Loc(cash_flow, "Free Cash Flow", date)
    ELSE IF operating_cash_flow # None
    THEN LET capex == Lookup(cash_flow, <<"Capital Expenditures", "Capital Expenditure">>, date)
         IN  IF capex # None /\ capex # NaN THEN AddFloats(operating_cash_flow, capex)
             ELSE operating_cash_flow
    ELSE None

(* The free cash flow of a period: the direct row, else operating cash     *)
(* flow + capex when a capex row exists.                                   *)
FreeCashFlow(cash_flow, operating_cash_flow, date) ==
    IF "Free Cash Flow" \in DOMAIN cash_flow.cell
    THEN Loc(cash_flow, "Free Cash Flow", date)
    ELSE IF operating_cash_flow # None
    THEN LET capex == Lookup(cash_flow, <<"Capital Expenditures", "Capital Expenditure">>, date)
         IN  IF capex # None THEN AddFloats(operating_cash_flow, capex) ELSE None
    ELSE None

(* The five cash-flow values of a period; all None when the cash-flow      *)
(* statement is empty or lacks the date.                                   *)
CashFlowValues(cash_flow, date) ==
    IF cash_flow.columns # <<>> /\ date \in ColumnSet(cash_flow)
    THEN LET operating == Lookup(cash_flow, <<"Operating Cash Flow", "Total Cash From Operating Activities">>, date)
         IN  [operating_cash_flow |-> operating,
              investing_cash_flow |-> Lookup(cash_flow, <<"Investing Cash Flow", "Total Cash From Investing Activities">>, date),
              financing_cash_flow |-> Lookup(cash_flow, <<"Financing Cash Flow", "Total Cash From Financing Activities">>, date),
              changes_in_cash |-> Lookup(cash_flow, <<"Changes In Cash", "Net Change In Cash">>, date),
              free_cash_flow |-> FreeCashFlow(cash_flow, operating, date)]
    ELSE [operating_cash_flow |-> None, investing_cash_flow |-> None,
          financing_cash_flow |-> None, changes_in_cash |-> None,
          free_cash_flow |-> None]

(* The keyword arguments of FinancialPeriod(...) from the values read for  *)
(* a period; a lookup that raised makes the whole try body raise.          *)
PeriodKwargs(date, income, balance, cash) ==
    LET read == {income.total_revenue, income.net_income, balance.total_assets, balance.total_liabilities, balance.total_equity, balance.shares_outstanding}
    IN  IF \E value \in read : IsRaise(value) THEN Raise("KeyError")
        ELSE [tag |-> "Kwargs", date |-> date,
              total_revenue |-> ToDecimal(income.total_revenue),
              net_income |-> ToDecimal(income.net_income),
              total_assets |-> ToDecimal(balance.total_assets),
              total_liabilities |-> ToDecimal(balance.total_liabilities),
              total_equity |-> ToDecimal(balance.total_equity),
              shares_outstanding |-> ToDecimal(balance.shares_outstanding),
              operating_cash_flow |-> ToDecimal(cash.operating_cash_flow),
              investing_cash_flow |-> ToDecimal(cash.investing_cash_flow),
              financing_cash_flow |-> ToDecimal(cash.financing_cash_flow),
              changes_in_cash |-> ToDecimal(cash.changes_in_cash),
              free_cash_flow |-> ToDecimal(cash.free_cash_flow)]

IncomeValues(financials, date) ==
    [total_revenue |-> Lookup(financials, <<"Total Revenue">>, date),
     net_income |-> Lookup(financials, <<"Net Income">>, date)]

(* The body of the annual loop up to the FinancialPeriod(...) call: the    *)
(* balance-sheet rows are read without asking whether it has the date.     *)
AnnualKwargs(st, date) ==
    LET balance_sheet == st.annual_balance_sheet
        balance == [total_assets |-> Lookup(balance_sheet, <<"Total Assets">>, date),
                    total_liabilities |-> Lookup(balance_sheet, <<"Total Liabilities Net Minority Interest", "Total Liab">>, date),
                    total_equity |-> Lookup(balance_sheet, <<"Stockholders Equity", "Total Stockholder Equity">>, date),
                    shares_outstanding |-> Lookup(balance_sheet, <<"Share Issued">>, date)]
    IN  PeriodKwargs(date, IncomeValues(st.annual_financials, date), balance,
                     CashFlowValues(st.annual_cash_flow, date))

(* The body of the quarterly loop up to the FinancialPeriod(...) call: the *)
(* balance-sheet rows are read only when the balance sheet has the date.   *)
QuarterlyKwargs(st, date) ==
    LET balance_sheet == st.quarterly_balance_sheet
        balance == IF balance_sheet.columns # <<>> /\ date \in ColumnSet(balance_sheet)
                   THEN [total_assets |-> Lookup(balance_sheet, <<"Total Assets">>, date),
                         total_liabilities |-> Lookup(balance_sheet, <<"Total Liabilities Net Minority Interest", "Total Liab">>, date),
                         total_equity |-> Lookup(balance_sheet, <<"Stockholders Equity", "Total Stockholder Equity">>, date),
                         shares_outstanding |-> Lookup(balance_sheet, <<"Ordinary Shares Number", "Share Issued">>, date)]
                   ELSE [total_assets |-> None, total_liabilities |-> None,
                         total_equity |-> None, shares_outstanding |-> None]
    IN  PeriodKwargs(date, IncomeValues(st.quarterly_financials, date), balance,
                     CashFlowValues(st.quarterly_cash_flow, date))

MaxColumns == 4     \* columns[:4]

(* The mutant of FirstColumns: every column is read.                       *)
FirstColumnsAll(frame) == frame.columns

(* frame.columns[:4]                                                       *)
FirstColumns(frame) == SubSeq(frame.columns, 1, Min(Len(frame.columns), MaxColumns))

(* The keyword arguments the two loops hand to FinancialPeriod(...), one   *)
(* entry per column read: the arguments, or the error of the lookups.      *)
HistoryKwargs(st) ==
    LET annual_dates == FirstColumns(st.annual_financials)
        quarterly_dates == FirstColumns(st.quarterly_financials)
    IN  [annual |-> IF st.annual_financials.columns # <<>> /\ st.annual_balance_sheet.columns # <<>>
                    THEN [i \in DOMAIN annual_dates |-> AnnualKwargs(st, annual_dates[i])]
                    ELSE <<>>,
         quarterly |-> IF st.quarterly_financials.columns # <<>>
                       THEN [i \in DOMAIN quarterly_dates |-> QuarterlyKwargs(st, quarterly_dates[i])]
                       ELSE <<>>]

(* The parameters of FinancialPeriod's generated __init__.                 *)
FinancialPeriodFields == {"date"} \cup DOMAIN EmptyRaw

(* The mutant of FinancialPeriodWithCashFlow: the keyword arguments are    *)
(* all accepted and kept.                                                  *)
FinancialPeriodAccepting(kwargs) == kwargs

(* FinancialPeriod(date=..., ..., operating_cash_flow=..., ...) as the     *)
(* service calls it: FinancialPeriod has no cash-flow fields, so the call  *)
(* raises TypeError (unexpected keyword argument).                         *)
FinancialPeriodWithCashFlow(kwargs) ==
    IF (DOMAIN kwargs \ {"tag"}) \subseteq FinancialPeriodFields
    THEN FinancialPeriod(kwargs)
    ELSE Raise("TypeError")

(* The periods a loop appends: a column whose lookups or whose             *)
(* FinancialPeriod(...) raise KeyError, ValueError or TypeError is skipped.*)
BuildPeriods(kwargs_list) ==
    LET built == [i \in DOMAIN kwargs_list |->
                     IF IsRaise(kwargs_list[i]) THEN kwargs_list[i]
                     ELSE FinancialPeriodWithCashFlow(kwargs_list[i])]
    IN  SelectSeq(built, LAMBDA built_period : ~IsRaise(built_period))

(* _calculate_financial_history(): None when a statement fetch raises and  *)
(* when no period was built.                                               *)
CalculateFinancialHistory(statements) ==
    IF IsRaise(statements) THEN None
    ELSE LET kwargs == HistoryKwargs(statements)
             annual == BuildPeriods(kwargs.annual)
             quarterly == BuildPeriods(kwargs.quarterly)
         IN  IF annual # <<>> \/ quarterly # <<>>
             THEN [tag |-> "FinancialHistory", annual_periods |-> annual,
                   quarterly_periods |-> quarterly]
             ELSE None

(* The state of a row pair: whether the preferred and the alias row are    *)
(* absent, hold not-a-number, or hold a number.                            *)
RowStates == {"absent", "nan", "num"}

Patterns == RowStates \X RowStates

RowCell(name, state, amount) ==
    IF state = "absent" THEN <<>>
    ELSE name :> (IF state = "nan" THEN NaN ELSE Num(Units(amount)))

(* A preferred row holding amount and its alias row holding amount + 1.    *)
RowPair(preferred, alias, pattern, amount) ==
    RowCell(preferred, pattern[1], amount) @@ RowCell(alias, pattern[2], amount + 1)

IncomeStatement(columns) ==
    Frame(columns, RowCell("Total Revenue", "num", 1000) @@ RowCell("Net Income", "num", 100))

BalanceSheet(columns, pattern) ==
    Frame(columns,
          RowCell("Total Assets", "num", 5000)
          @@ RowPair("Total Liabilities Net Minority Interest", "Total Liab", pattern, 3000)
          @@ RowPair("Stockholders Equity", "Total Stockholder Equity", pattern, 2000)
          @@ RowPair("Ordinary Shares Number", "Share Issued", pattern, 40))

CashFlow(columns, pattern, direct, capex) ==
    Frame(columns,
          RowPair("Operating Cash Flow", "Total Cash From Operating Activities", pattern, 500)
          @@ RowPair("Investing Cash Flow", "Total Cash From Investing Activities", pattern, -300)
          @@ RowPair("Financing Cash Flow", "Total Cash From Financing Activities", pattern, -150)
          @@ RowPair("Changes In Cash", "Net Change In Cash", pattern, 50)
          @@ RowCell("Free Cash Flow", direct, 420)
          @@ RowPair("Capital Expenditures", "Capital Expenditure", capex, -90))

(* The six statements of a ticker; kinds tells which of the annual and the *)
(* quarterly statements have columns.                                      *)
StatementsOf(kinds, columns, balance_columns, cash_columns, balance_pattern, cash_pattern, direct, capex) ==
    LET annual == IF kinds = "quarterly" THEN <<>> ELSE columns
        quarterly == IF kinds = "annual" THEN <<>> ELSE columns
    IN  [tag |-> "Statements",
         annual_financials |-> IncomeStatement(annual),
         annual_balance_sheet |-> BalanceSheet(IF annual = <<>> THEN <<>> ELSE balance_columns, balance_pattern),
         annual_cash_flow |-> CashFlow(IF annual = <<>> THEN <<>> ELSE cash_columns, cash_pattern, direct, capex),
         quarterly_financials |-> IncomeStatement(quarterly),
         quarterly_balance_sheet |-> BalanceSheet(IF quarterly = <<>> THEN <<>> ELSE balance_columns, balance_pattern),
         quarterly_cash_flow |-> CashFlow(IF quarterly = <<>> THEN <<>> ELSE cash_columns, cash_pattern, direct, capex)]

(* No period, two periods, and five periods (more than the loops read).    *)
ColumnLists == {<<>>, <<5, 4>>, <<5, 4, 3, 2, 1>>}

CapexPatterns ==
    {<<"absent", "absent">>, <<"num", "absent">>, <<"absent", "num">>, <<"nan", "num">>}

StatementInputs ==
    {Raise("FetchError")}
    \cup {StatementsOf(k, c, b[1], b[2], p, p, d, x) :
            k \in {"both", "annual", "quarterly"},
            c \in ColumnLists,
            b \in {<<5, 4>>, <<4>>, <<>>} \X {<<5, 4>>, <<4>>, <<>>},
            p \in Patterns, d \in RowStates, x \in CapexPatterns}

(* _calculate_data_quality_score(info, growth_metrics)                     *)
CalculateDataQualityScore(info, metrics) ==
    LET growth_point == IF metrics # None /\ metrics.one_year # None THEN 1 ELSE 0
    IN  Frac(info.key_fields + growth_point, 6)

(* The dividend yield handed to StockInfo: the reported yield, normalised  *)
(* to a decimal fraction or dropped, else the yield calculated from the    *)
(* dividend rate and the price; stored as a percentage.                    *)
DividendYield(info, price) ==
    LET given_yield == FirstTruthy(info.dividendYield, info.trailingAnnualDividendYield)
        rate == FirstTruthy(info.dividendRate, info.trailingAnnualDividendRate)
        checked == IF given_yield = None THEN None
                   ELSE IF FLeq(given_yield.v, Frac(0, 1)) THEN None
                   ELSE IF FLt(Frac(20, 1), given_yield.v) THEN None
                   ELSE IF FLt(Frac(20, 100), given_yield.v)
                        THEN Num(FDiv(given_yield.v, Frac(100, 1)))
                   ELSE given_yield
        calculated == IF rate = None THEN None
                      ELSE Num(FMul(FDiv(rate.v, price), Frac(100, 1)))
        final == IF checked = None /\ rate # None /\ FLt(Frac(0, 1), price)
                 THEN IF FLt(Frac(0, 1), calculated.v) /\ FLeq(calculated.v, Frac(20, 1))
                      THEN Num(FDiv(calculated.v, Frac(100, 1)))
                      ELSE checked
                 ELSE checked
    IN  IF final # None /\ FLt(Frac(0, 1), final.v)
        THEN Num(FMul(final.v, Frac(100, 1)))
        ELSE None

(* _process_stock_data(raw_data): an exception of any step, the ValueError *)
(* of StockInfo(...) included, is caught and None is returned.             *)
ProcessStockData(u, raw_data) ==
    LET info == raw_data.info
        hist == raw_data.hist
        price == Frac(hist.close, RawPerUnit)
        previous_close == IF hist.previous = None THEN price
                          ELSE Frac(hist.previous.v, RawPerUnit)
        change == FSub(price, previous_close)
        change_percent == IF FLt(Frac(0, 1), previous_close)
                          THEN FMul(FDiv(change, previous_close), Frac(100, 1))
                          ELSE Frac(0, 1)
        metrics == CalculateGrowthMetrics(u.windows)
        range == CalculatePriceRange(u.hist_52w, hist)
        history == CalculateFinancialHistory(u.statements)
        built == StockInfo(StockArgs(u.symbol, Num(price), Num(change),
                     Num(change_percent), DividendYield(info, price),
                     FirstTruthy(info.dividendRate, info.trailingAnnualDividendRate),
                     metrics, range, history,
                     CalculateDataQualityScore(info, metrics)))
    IN  IF IsRaise(range) THEN None
        ELSE IF IsRaise(built) THEN None
        ELSE built

(* get_stock_info(): None when there is no raw data or it cannot be        *)
(* processed.  Both steps catch their own exceptions, so the StockDataError*)
(* branch is never taken.                                                  *)
GetStockInfo(u) ==
    LET raw_data == FetchRawData(u)
    IN  IF raw_data = None THEN None
        ELSE ProcessStockData(u, raw_data)

(* The info dict: whether it names the symbol, its dividend fields and the *)
(* number of the five key fields it holds.                                 *)
Info(named, dividendYield, trailingYield, dividendRate, trailingRate, key_fields) ==
    [tag |-> "Info", named |-> named, dividendYield |-> dividendYield,
     trailingAnnualDividendYield |-> trailingYield,
     dividendRate |-> dividendRate,
     trailingAnnualDividendRate |-> trailingRate,
     key_fields |-> key_fields]

ServiceInfos ==
    {Raise("FetchError"), Empty,
     Info(FALSE, None, None, None, None, 5),
     Info(TRUE, None, None, None, None, 0),
     Info(TRUE, Num(Frac(51, 10000)), None, Num(Frac(96, 100)), None, 5),
     Info(TRUE, Num(Frac(51, 100)), None, None, None, 5),
     Info(TRUE, Num(Frac(25, 1)), None, None, None, 5),
     Info(TRUE, Num(Frac(0, 1)), Num(Frac(64, 10000)), None, Num(Frac(96, 100)), 5),
     Info(TRUE, None, None, Num(Frac(96, 100)), None, 5)}

(* The last row of history(period="2d") and the close of the row before.   *)
Quote(previous, close, low, high) ==
    [tag |-> "Quote", previous |-> previous, close |-> close,
     low |-> low, high |-> high]

Quotes ==
    {Raise("FetchError"), Empty,
     Quote(None, Units(150), Units(149), Units(151)),
     Quote(Num(Units(151) + 50), Units(150) + 1, Units(149), Units(151)),
     Quote(None, Units(150), Units(151), Units(149)),
     Quote(None, 0, 0, 0)}

(* history(period="1y"): the minimum of Low and the maximum of High.       *)
YearHistories ==
    {Raise("FetchError"), Empty,
     [tag |-> "Year", low |-> Units(100), high |-> Units(200)],
     [tag |-> "Year", low |-> Units(150), high |-> Units(150)]}

(* The history fetches of one growth window: failing or usable.            *)
ServiceWindows ==
    {[start |-> Raise("FetchError"), end |-> Rows(0, Num(8000))],
     [start |-> Rows(OldestAge, Num(5000)), end |-> Rows(0, Num(8000))]}

(* The statements of the service runs: a failing fetch, no statement with *)
(* columns, all of them with two periods, and annual or quarterly only.    *)
StatementSets ==
    {Raise("FetchError"),
     StatementsOf("both", <<>>, <<>>, <<>>, <<"num", "absent">>, <<"num", "absent">>, "num", <<"absent", "absent">>),
     StatementsOf("both", <<5, 4>>, <<5, 4>>, <<5, 4>>, <<"num", "absent">>, <<"num", "absent">>, "num", <<"absent", "absent">>),
     StatementsOf("annual", <<5, 4>>, <<>>, <<5, 4>>, <<"num", "absent">>, <<"num", "absent">>, "absent", <<"num", "absent">>),
     StatementsOf("quarterly", <<5, 4>>, <<4>>, <<>>, <<"absent", "num">>, <<"absent", "num">>, "absent", <<"absent", "absent">>)}

Upstreams ==
    [symbol : {Str(<<"A", "A">>)}, info : ServiceInfos, hist : Quotes,
     hist_52w : YearHistories, windows : [LookbackPeriods -> ServiceWindows],
     statements : StatementSets]

ServiceIdle ==
    /\ upstream = None
    /\ service_result = Pending

(* await service.get_stock_info()                                          *)
CallGetStockInfo ==
    /\ service_result = Pending
    /\ service_result' = GetStockInfo(upstream)
    /\ UNCHANGED <<upstream, coreVars, metricsVars, rangeVars, symbolVars,
                   displayVars, commandVars, stockVars, historyVars, qualityVars, tableVars>>

----------------------------------------------------------------------------
(* YFinanceStockService._calculate_financial_history, run on its own       *)

HistoryIdle ==
    /\ statement_data = None
    /\ period_kwargs = Pending
    /\ history_result = Pending

(* financial_history = await self._calculate_financial_history()           *)
CallCalculateFinancialHistory ==
    /\ history_result = Pending
    /\ period_kwargs' = IF IsRaise(statement_data)
                        THEN [annual |-> <<>>, quarterly |-> <<>>]
                        ELSE HistoryKwargs(statement_data)
    /\ history_result' = CalculateFinancialHistory(statement_data)
    /\ UNCHANGED <<statement_data, coreVars, metricsVars, rangeVars, symbolVars, displayVars, commandVars, stockVars, serviceVars, qualityVars, tableVars>>

----------------------------------------------------------------------------
(* StockRenderer.render_all and _check_and_warn_data_quality               *)
(* (cli/display/stock_renderer.py).  The market cap is in dollars, the     *)
(* stored values of a period are cents of the unit the period holds them   *)
(* in (millions).  Of the report only the part that concerns the financial *)
(* history is kept: the warnings and the values the tables show.           *)

MaxReportPeriods == 3   \* periods of each kind in a reported history

(* if value: abs(float(value)) > market_cap_millions * factor              *)
(* with market_cap_millions = market_cap / 1_000_000 as an exact fraction  *)
Exceeds(value, market_cap, factor) ==
    LET market_cap_millions == Frac(market_cap, MILLION)
    IN  /\ value # None
        /\ value.v # 0
        /\ Abs(value.v) * market_cap_millions[2] > market_cap_millions[1] * factor * 100

Warning(kind, metric, index) == [kind |-> kind, metric |-> metric, index |-> index]

(* periods[:n]                                                             *)
FirstPeriods(periods, n) == SubSeq(periods, 1, Min(Len(periods), n))

(* The warnings of the annual loop for the period at index i: revenue over *)
(* 100 times, total assets over 500 times the market cap.                  *)
AnnualWarnings(periods, i, market_cap) ==
    (IF Exceeds(periods[i].total_revenue, market_cap, 100)
     THEN <<Warning("annual", "revenue", i)>> ELSE <<>>)
    \o (IF Exceeds(periods[i].total_assets, market_cap, 500)
        THEN <<Warning("annual", "assets", i)>> ELSE <<>>)

(* The warnings of the quarterly loop for the period at index i: revenue   *)
(* over 50 times the market cap.                                           *)
QuarterlyWarnings(periods, i, market_cap) ==
    IF Exceeds(periods[i].total_revenue, market_cap, 50)
    THEN <<Warning("quarterly", "revenue", i)>> ELSE <<>>

(* for warning in warnings[:3]: print                                      *)
PrintedWarnings(warnings) == SubSeq(warnings, 1, Min(Len(warnings), 3))

(* _check_and_warn_data_quality: the warnings list it builds from the two  *)
(* most recent annual and the two most recent quarterly periods.           *)
CheckAndWarnDataQuality(info) ==
    IF info.market_cap = None \/ info.market_cap.v <= 0 THEN <<>>
    ELSE LET annual == FirstPeriods(info.financial_history.annual_periods, 2)
             quarterly == FirstPeriods(info.financial_history.quarterly_periods, 2)
             first_annual == IF Len(annual) >= 1 THEN AnnualWarnings(annual, 1, info.market_cap.v) ELSE <<>>
             second_annual == IF Len(annual) >= 2 THEN AnnualWarnings(annual, 2, info.market_cap.v) ELSE <<>>
             first_quarter == IF Len(quarterly) >= 1 THEN QuarterlyWarnings(quarterly, 1, info.market_cap.v) ELSE <<>>
             second_quarter == IF Len(quarterly) >= 2 THEN QuarterlyWarnings(quarterly, 2, info.market_cap.v) ELSE <<>>
         IN  first_annual \o second_annual \o first_quarter \o second_quarter

(* render_all: the data-quality check when there is a history and a market *)
(* cap, then the tables of the history: the income statements and balance  *)
(* sheets show the first four periods as stored; the cash-flow table asks  *)
(* the history for get_cash_flow_growth, which FinancialHistory does not   *)
(* have.                                                                   *)
RenderAll(info) ==
    LET history == info.financial_history
        checked == history # None /\ info.market_cap # None /\ info.market_cap.v # 0
        warnings == IF checked THEN CheckAndWarnDataQuality(info) ELSE <<>>
    IN  [tag |-> "Report",
         warnings |-> warnings,
         printed |-> PrintedWarnings(warnings),
         annual_shown |-> IF history = None THEN <<>> ELSE FirstPeriods(history.annual_periods, 4),
         quarterly_shown |-> IF history = None THEN <<>> ELSE FirstPeriods(history.quarterly_periods, 4),
         error |-> IF history # None /\ history.annual_periods # <<>>
                   THEN Raise("AttributeError") ELSE None]

(* The periods of a reported history, with a market cap of 1,000,000: at   *)
(* the limits (100.00 and 500.00), revenue just over 100 without assets,   *)
(* assets over 500 without revenue, and a negative revenue with assets     *)
(* over 500.                                                               *)
ReportPeriods ==
    {[total_revenue |-> Num(10000), total_assets |-> Num(50000)],
     [total_revenue |-> Num(10001), total_assets |-> None],
     [total_revenue |-> None, total_assets |-> Num(60000)],
     [total_revenue |-> Num(-25000), total_assets |-> Num(60000)]}

ReportPeriodLists == UNION {[1..n -> ReportPeriods] : n \in 0..MaxReportPeriods}

ReportInfos ==
    [market_cap : {None, Num(0), Num(MILLION)},
     financial_history : {None} \cup [annual_periods : ReportPeriodLists, quarterly_periods : ReportPeriodLists]]

QualityIdle ==
    /\ report_info = None
    /\ report = Pending

(* renderer.render_all(stock_info)                                         *)
CallRenderAll ==
    /\ report = Pending
    /\ report' = RenderAll(report_info)
    /\ UNCHANGED <<report_info, coreVars, metricsVars, rangeVars, symbolVars, displayVars, commandVars, stockVars, serviceVars, historyVars, tableVars>>

----------------------------------------------------------------------------
(* RichFinancialTableFormatter._calculate_growth_rates                     *)
(* (cli/formatters/financial_table_formatter.py), next to                  *)
(* FinancialHistory._calculate_growth_rates                                *)

MaxTablePeriods == 3    \* periods given to the two growth calculations

(* One entry of the formatter's loop, in tenths of a percent:              *)
(*   ((current - previous) / abs(previous)) * 100, quantize(Decimal('0.1'))*)
TableGrowthEntry(current, previous) ==
    IF current # None /\ previous # None /\ previous.v # 0
    THEN Num(RoundHalfEven(1000 * (current.v - previous.v), Abs(previous.v)))
    ELSE None

(* RichFinancialTableFormatter._calculate_growth_rates(periods, metric)    *)
TableCalculateGrowthRates(periods, metric) ==
    IF Len(periods) < 2 THEN <<>>
    ELSE [i \in 1..(Len(periods) - 1) |->
            TableGrowthEntry(periods[i][metric], periods[i + 1][metric])]

BalanceSheetMetrics == {"total_assets", "total_liabilities", "total_equity"}

TableIdle ==
    /\ table_metric = "total_assets"
    /\ table_periods = <<>>
    /\ table_series = Pending

(* The growth of a balance-sheet row as the quarterly table computes it    *)
(* (the formatter's function) and as the annual table computes it          *)
(* (get_balance_sheet_growth, the history's function), on the same periods.*)
CallCalculateGrowthRates ==
    /\ table_series = Pending
    /\ table_series' = [tag |-> "Series",
                        formatter |-> TableCalculateGrowthRates(table_periods, table_metric),
                        history |-> CalculateGrowthRates(table_periods, table_metric)]
    /\ UNCHANGED <<table_metric, table_periods, coreVars, metricsVars, rangeVars, symbolVars, displayVars, commandVars, stockVars, serviceVars, historyVars, qualityVars>>

----------------------------------------------------------------------------
(* Specifications                                                          *)

CoreIdle == PeriodIdle /\ GrowthIdle /\ WaccIdle /\ CalcIdle

AppIdle == MetricsIdle /\ RangeIdle /\ SymbolIdle /\ DisplayIdle /\ CommandIdle /\ StockIdle /\ ServiceIdle /\ HistoryIdle /\ QualityIdle /\ TableIdle

InitPeriod == PeriodIdle /\ GrowthIdle /\ WaccIdle /\ CalcIdle /\ AppIdle

NextPeriod == Construct

SpecPeriod == InitPeriod /\ [][NextPeriod]_vars

InitGrowth ==
    /\ PeriodIdle
    /\ WaccIdle
    /\ CalcIdle
    /\ AppIdle
    /\ annual_periods = <<>>
    /\ quarterly_periods = <<>>
    /\ reported \in MonetaryFields
    /\ growth = None

NextGrowth ==
    \/ AddAnnual
    \/ AddQuarterly
    \/ GetRevenueGrowth
    \/ GetNetIncomeGrowth
    \/ GetBalanceSheetGrowth

SpecGrowth == InitGrowth /\ [][NextGrowth]_vars

ColumnSeqs == UNION {[1..n -> Columns] : n \in 0..MaxCols}

InitWacc ==
    /\ PeriodIdle
    /\ GrowthIdle
    /\ CalcIdle
    /\ AppIdle
    /\ ticker \in {[info |-> i, columns |-> c, missing |-> m] :
                     i \in Infos, c \in ColumnSeqs, m \in MissingRows}
    /\ tnx \in TreasuryCloses
    /\ required_return \in RequiredReturns
    /\ wacc = None

NextWacc == CalculateWacc

SpecWacc == InitWacc /\ [][NextWacc]_vars

InitCalc ==
    /\ PeriodIdle
    /\ GrowthIdle
    /\ WaccIdle
    /\ AppIdle
    /\ calc_period \in LookbackPeriods
    /\ hist_start \in StartHistories
    /\ hist_end \in EndHistories
    /\ calc_result = Pending

NextCalc == CallCalculateGrowth

SpecCalc == InitCalc /\ [][NextCalc]_vars

InitMetrics ==
    /\ CoreIdle
    /\ RangeIdle
    /\ SymbolIdle
    /\ DisplayIdle
    /\ CommandIdle
    /\ StockIdle
    /\ ServiceIdle
    /\ HistoryIdle
    /\ QualityIdle
    /\ TableIdle
    /\ windows \in [LookbackPeriods -> Windows]
    /\ growth_metrics = Pending

NextMetrics == CallCalculateGrowthMetrics

SpecMetrics == InitMetrics /\ [][NextMetrics]_vars

InitRange ==
    /\ CoreIdle
    /\ MetricsIdle
    /\ SymbolIdle
    /\ DisplayIdle
    /\ CommandIdle
    /\ StockIdle
    /\ ServiceIdle
    /\ HistoryIdle
    /\ QualityIdle
    /\ TableIdle
    /\ range_args \in [week_52_low : RawPrices, week_52_high : RawPrices,
                       day_low : RawPrices, day_high : RawPrices]
    /\ price_range = Pending
    /\ current_price = None
    /\ position = Pending

NextRange ==
    \/ ConstructPriceRange
    \/ CallCalculatePositionInRange

SpecRange == InitRange /\ [][NextRange]_vars

InitSymbol ==
    /\ CoreIdle
    /\ MetricsIdle
    /\ RangeIdle
    /\ DisplayIdle
    /\ CommandIdle
    /\ StockIdle
    /\ ServiceIdle
    /\ HistoryIdle
    /\ QualityIdle
    /\ TableIdle
    /\ symbol \in Symbols
    /\ is_valid = Pending

NextSymbol == CallIsValidSymbol

SpecSymbol == InitSymbol /\ [][NextSymbol]_vars

InitDisplay ==
    /\ CoreIdle
    /\ MetricsIdle
    /\ RangeIdle
    /\ SymbolIdle
    /\ CommandIdle
    /\ StockIdle
    /\ ServiceIdle
    /\ HistoryIdle
    /\ QualityIdle
    /\ TableIdle
    /\ growth_values \in {None} \cup [growth_1y : GrowthValues, growth_2y : GrowthValues,
                                      growth_5y : GrowthValues, growth_10y : GrowthValues]
    /\ shown = Pending

NextDisplay ==
    \/ CallDisplayStockInfo
    \/ CallFormatGrowthData

SpecDisplay == InitDisplay /\ [][NextDisplay]_vars

InitCommand ==
    /\ CoreIdle
    /\ MetricsIdle
    /\ RangeIdle
    /\ SymbolIdle
    /\ DisplayIdle
    /\ StockIdle
    /\ ServiceIdle
    /\ HistoryIdle
    /\ QualityIdle
    /\ TableIdle
    /\ argv_symbol \in CommandSymbols
    /\ provider \in Providers
    /\ command = Pending

NextCommand == RunTickerCommand

SpecCommand == InitCommand /\ [][NextCommand]_vars

InitStock ==
    /\ CoreIdle
    /\ MetricsIdle
    /\ RangeIdle
    /\ SymbolIdle
    /\ DisplayIdle
    /\ CommandIdle
    /\ ServiceIdle
    /\ HistoryIdle
    /\ QualityIdle
    /\ TableIdle
    /\ stock_args \in StockInputs
    /\ stock_info = Pending
    /\ pays_dividend = Pending

NextStock ==
    \/ ConstructStockInfo
    \/ ReadPaysDividend

SpecStock == InitStock /\ [][NextStock]_vars

InitService ==
    /\ CoreIdle
    /\ MetricsIdle
    /\ RangeIdle
    /\ SymbolIdle
    /\ DisplayIdle
    /\ CommandIdle
    /\ StockIdle
    /\ HistoryIdle
    /\ QualityIdle
    /\ TableIdle
    /\ upstream \in Upstreams
    /\ service_result = Pending

NextService ==
    CallGetStockInfo

SpecService == InitService /\ [][NextService]_vars

InitHistory ==
    /\ CoreIdle
    /\ MetricsIdle
    /\ RangeIdle
    /\ SymbolIdle
    /\ DisplayIdle
    /\ CommandIdle
    /\ StockIdle
    /\ ServiceIdle
    /\ QualityIdle
    /\ TableIdle
    /\ statement_data \in StatementInputs
    /\ period_kwargs = Pending
    /\ history_result = Pending

NextHistory ==
    CallCalculateFinancialHistory

SpecHistory == InitHistory /\ [][NextHistory]_vars

InitQuality ==
    /\ CoreIdle
    /\ MetricsIdle
    /\ RangeIdle
    /\ SymbolIdle
    /\ DisplayIdle
    /\ CommandIdle
    /\ StockIdle
    /\ ServiceIdle
    /\ HistoryIdle
    /\ TableIdle
    /\ report_info \in ReportInfos
    /\ report = Pending

NextQuality ==
    CallRenderAll

SpecQuality == InitQuality /\ [][NextQuality]_vars

InitTable ==
    /\ CoreIdle
    /\ MetricsIdle
    /\ RangeIdle
    /\ SymbolIdle
    /\ DisplayIdle
    /\ CommandIdle
    /\ StockIdle
    /\ ServiceIdle
    /\ HistoryIdle
    /\ QualityIdle
    /\ table_metric \in BalanceSheetMetrics
    /\ \E n \in 0..MaxTablePeriods :
          table_periods \in [1..n -> {FinancialPeriod([EmptyRaw EXCEPT ![table_metric] = amount]) : amount \in GrowthAmounts}]
    /\ table_series = Pending

NextTable ==
    CallCalculateGrowthRates

SpecTable == InitTable /\ [][NextTable]_vars

----------------------------------------------------------------------------
(* Properties of FinancialHistory's growth series (SpecGrowth)             *)

(* The periods the last growth query read.                                 *)
QueriedPeriods == PeriodsOf(growth.period_type)

(* C1: every entry of a growth series whose two periods both carry a       *)
(* value, the older one non-zero, equals                                   *)
(* (period[i] - period[i+1]) / |period[i+1]| * 100 rounded to one decimal: *)
(* the denominator is the absolute value of the older period's value, so   *)
(* previous = -100 and current = -50 give +50.0.                           *)
C1_GrowthDividesByAbsolutePrevious ==
    growth # None =>
        \A m \in DOMAIN growth.series :
            /\ Len(growth.series[m]) = Max(0, Len(QueriedPeriods) - 1)
            /\ \A i \in 1..Len(growth.series[m]) :
                  LET current  == QueriedPeriods[i][m]
                      previous == QueriedPeriods[i + 1][m]
                  IN  (current # None /\ previous # None /\ previous.v # 0) =>
                          growth.series[m][i] =
                              Num(RoundHalfEven(1000 * (current.v - previous.v),
                                                Abs(previous.v)))

(* C2: a growth series computed from n periods has max(0, n - 1) entries   *)
(* (none for n < 2), and entry i is the growth from period i+1 (older) to  *)
(* period i (newer), computed from these two periods alone.                *)
C2_GrowthSeriesLengthAndPairing ==
    growth # None =>
        \A m \in DOMAIN growth.series :
            /\ Len(growth.series[m]) = Max(0, Len(QueriedPeriods) - 1)
            /\ \A i \in 1..Len(growth.series[m]) :
                  growth.series[m][i] =
                      GrowthEntry(QueriedPeriods[i][m], QueriedPeriods[i + 1][m])

(* C2 witness: a revenue series of three annual periods with two           *)
(* different non-null entries.                                             *)
C2_Witness ==
    /\ growth # None
    /\ growth.call = "get_revenue_growth"
    /\ growth.period_type = "annual"
    /\ Len(annual_periods) = 3
    /\ Len(growth.series.total_revenue) = 2
    /\ growth.series.total_revenue[1] # None
    /\ growth.series.total_revenue[2] # None
    /\ growth.series.total_revenue[1] # growth.series.total_revenue[2]

(* C3: an entry of a growth series is null exactly when the metric is      *)
(* null in period i, or null in period i+1, or zero in period i+1.         *)
C3_GrowthNullIffMissingOrZeroBase ==
    growth # None =>
        \A m \in DOMAIN growth.series :
            /\ Len(growth.series[m]) = Max(0, Len(QueriedPeriods) - 1)
            /\ \A i \in 1..Len(growth.series[m]) :
                  LET current  == QueriedPeriods[i][m]
                      previous == QueriedPeriods[i + 1][m]
                  IN  (growth.series[m][i] = None) <=>
                          (current = None \/ previous = None \/ previous.v = 0)

(* C3 witness: a liabilities series whose first entry is a number and      *)
(* whose second entry is null because the oldest period holds zero.        *)
C3_Witness ==
    /\ growth # None
    /\ growth.call = "get_balance_sheet_growth"
    /\ Len(annual_periods) = 3
    /\ annual_periods[2].total_liabilities # None
    /\ annual_periods[3].total_liabilities = Num(0)
    /\ growth.series.total_liabilities[1] # None
    /\ growth.series.total_liabilities[2] = None

----------------------------------------------------------------------------
(* Properties of FinancialPeriod (SpecPeriod)                              *)

(* C4: after construction every non-null monetary field whose raw          *)
(* magnitude (absolute value) exceeds 1,000,000 holds raw / 1,000,000      *)
(* rounded to two decimals, and every other non-null monetary field holds  *)
(* the raw value rounded to two decimals.                                  *)
C4_MagnitudeAboveMillionIsScaled ==
    period # None =>
        \A f \in MonetaryFields :
            raw_period[f] # None =>
                period[f] =
                    IF Abs(raw_period[f].v) > Units(MILLION)
                    THEN Num(QuantizeMillions(raw_period[f].v))
                    ELSE Num(QuantizeCents(raw_period[f].v))

----------------------------------------------------------------------------
(* Properties of the WACC calculation (SpecWacc)                           *)

(* Whether the calculation took the step.                                  *)
Reached(step) == \E i \in DOMAIN wacc.trace : wacc.trace[i] = step

(* Whether a column reports an interest expense, in the income statement   *)
(* or in the cash-flow statement.                                          *)
HasInterest(col) == NotNa(col.interest_expense) \/ NotNa(col.interest_paid)

(* The most recent column that reports an interest expense, 0 if none.     *)
FirstInterestCol ==
    IF \E i \in DOMAIN Statements(ticker) : HasInterest(Statements(ticker)[i])
    THEN CHOOSE i \in DOMAIN Statements(ticker) :
            /\ HasInterest(Statements(ticker)[i])
            /\ \A j \in 1..(i - 1) : ~HasInterest(Statements(ticker)[j])
    ELSE 0

(* The interest expense of a column that reports one.                      *)
InterestOf(col) ==
    IF NotNa(col.interest_expense) THEN col.interest_expense.v ELSE col.interest_paid.v

(* Whether a column's tax rate cannot be computed.                         *)
TaxUnavailable(col) ==
    \/ col.pretax_income = Absent
    \/ col.tax_provision = Absent
    \/ (NotNa(col.pretax_income) /\ col.pretax_income.v[1] = 0)

C6_WaccDebtIsDebtOfInterestPeriod ==
    (wacc # None /\ IsNum(wacc.result)) =>
        wacc.total_debt = GetTotalDebt(Statements(ticker)[wacc.cost_of_debt.col])

(* C7: when the first period with interest expense I has total debt D > 0  *)
(* and no computable tax rate (pretax income missing or zero, or tax       *)
(* provision missing), the cost of debt is I / D and the WACC is still     *)
(* produced, given market cap, beta and treasury yield.                    *)
C7_PretaxCostOfDebtWhenTaxUnavailable ==
    wacc # None =>
        LET k == FirstInterestCol
        IN  (/\ k # 0
             /\ TaxUnavailable(Statements(ticker)[k])
             /\ IsNum(GetTotalDebt(Statements(ticker)[k]))
             /\ IsNum(GetTotalDebt(Statements(ticker)[1]))
             /\ ticker.info.marketCap # Absent
             /\ ticker.info.beta # None
             /\ tnx # Absent)
            => /\ IsNum(wacc.result)
               /\ wacc.cost_of_debt.value =
                      Num(FDiv(InterestOf(Statements(ticker)[k]),
                               GetTotalDebt(Statements(ticker)[k]).v))

(* Whether a balance-sheet column has the rows a total debt needs.         *)
DebtAvailable(col) ==
    \/ (NotNa(col.long_term_debt) /\ NotNa(col.current_debt))
    \/ NotNa(col.total_debt)

(* A failure of the pipeline: no market cap, a failed treasury fetch, no   *)
(* debt data in the latest balance sheet, no period with interest expense. *)
PipelineFailure ==
    \/ ticker.info.marketCap = Absent
    \/ tnx = Absent
    \/ Len(Statements(ticker)) = 0
    \/ ~DebtAvailable(Statements(ticker)[1])
    \/ FirstInterestCol = 0

(* C8: the calculation never raises; it returns None with exactly one      *)
(* logged error on every failure of the pipeline, and logs no error when   *)
(* it returns a value.                                                     *)
C8_WaccNoneAndOneErrorOnAnyFailure ==
    wacc # None =>
        /\ (wacc.result = None) <=> (wacc.errors = 1)
        /\ (wacc.result # None) <=> (wacc.errors = 0)
        /\ PipelineFailure => (wacc.result = None)

(* C9: the cost of equity is treasury_yield + beta * (required_return -    *)
(* treasury_yield), with treasury_yield the ^TNX close / 100 and beta 1.0  *)
(* whenever info holds no usable beta (no key, or None); with no usable    *)
(* beta it equals required_return.                                         *)
C9_CostOfEquityCapmWithDefaultBeta ==
    (wacc # None /\ Reached("beta") /\ tnx # Absent) =>
        LET usable == ticker.info.beta # Absent /\ ticker.info.beta # None
            beta == IF usable THEN ticker.info.beta.v ELSE Frac(1, 1)
            treasury_yield == FDiv(tnx.v, Frac(100, 1))
        IN  /\ wacc.cost_of_equity =
                   Num(FAdd(treasury_yield,
                            FMul(beta, FSub(required_return, treasury_yield))))
            /\ ~usable => (wacc.cost_of_equity = Num(required_return))

(* The position of a step in the steps taken, 0 when it was not reached.   *)
StepIndex(step) ==
    IF Reached(step) THEN CHOOSE i \in DOMAIN wacc.trace : wacc.trace[i] = step
    ELSE 0

(* C29: the market cap is resolved before the treasury yield is requested; *)
(* when the market cap is absent the calculation returns None without      *)
(* issuing the ^TNX fetch and without starting the cost-of-debt scan.      *)
C29_NoMarketCapNoTreasuryFetch ==
    wacc # None =>
        /\ Reached("tnx") =>
              (Reached("marketCap") /\ StepIndex("marketCap") < StepIndex("tnx"))
        /\ (ticker.info.marketCap = Absent) =>
              /\ wacc.result = None
              /\ ~Reached("tnx")
              /\ ~Reached("cost_of_debt")
              /\ wacc.cost_of_debt.col = 0

(* C29 witness: statements with a period that has interest expense and a   *)
(* treasury close at hand, but no market cap: the calculation stops at the *)
(* market cap.                                                             *)
C29_Witness ==
    /\ wacc # None
    /\ ticker.info.marketCap = Absent
    /\ tnx # Absent
    /\ FirstInterestCol # 0
    /\ wacc.trace = <<"info", "balance_sheet", "marketCap">>
    /\ wacc.result = None

(* x <= y and x < y for fractions, the common factor of the denominators   *)
(* taken out before the cross-multiplication to stay within 32 bits.       *)
FLeqReduced(x, y) ==
    LET g == GCD(x[2], y[2])
    IN  x[1] * (y[2] \div g) <= y[1] * (x[2] \div g)

FLtReduced(x, y) == ~FLeqReduced(y, x)

(* The smaller and the larger of two fractions.                            *)
FMin(x, y) == IF FLeqReduced(x, y) THEN x ELSE y

FMax(x, y) == IF FLeqReduced(x, y) THEN y ELSE x

(* A value was returned, from a total debt >= 0 and a market cap > 0.      *)
WaccReturned ==
    /\ wacc # None
    /\ wacc.result # None
    /\ IsNum(wacc.total_debt)
    /\ FLeq(Frac(0, 1), wacc.total_debt.v)
    /\ FLt(Frac(0, 1), ticker.info.marketCap.v)

(* The weights are each in [0, 1] and sum to 1, the WACC is the weighted   *)
(* sum of the two costs and lies between the smaller and the larger one.   *)
ConvexCombinationOfCosts ==
    LET total_value   == FAdd(wacc.total_debt.v, ticker.info.marketCap.v)
        debt_weight   == FDiv(wacc.total_debt.v, total_value)
        equity_weight == FDiv(ticker.info.marketCap.v, total_value)
        cost_of_debt   == wacc.cost_of_debt.value.v
        cost_of_equity == wacc.cost_of_equity.v
    IN  /\ FLeq(Frac(0, 1), debt_weight) /\ FLeq(debt_weight, Frac(1, 1))
        /\ FLeq(Frac(0, 1), equity_weight) /\ FLeq(equity_weight, Frac(1, 1))
        /\ FAdd(debt_weight, equity_weight) = Frac(1, 1)
        /\ wacc.result.v = FAdd(FMul(debt_weight, cost_of_debt),
                                FMul(equity_weight, cost_of_equity))
        /\ FLeqReduced(FMin(cost_of_debt, cost_of_equity), wacc.result.v)
        /\ FLeqReduced(wacc.result.v, FMax(cost_of_debt, cost_of_equity))

(* C30: whenever a WACC is returned with total_debt >= 0 and market_cap >  *)
(* 0, the debt weight and the equity weight are each in [0, 1] and sum to  *)
(* 1, so the WACC lies between min(cost_of_debt, cost_of_equity) and       *)
(* max(cost_of_debt, cost_of_equity) inclusive.  A returned nan lies       *)
(* between no two costs.                                                   *)
C30_WaccIsConvexCombinationOfCosts ==
    WaccReturned =>
        /\ IsNum(wacc.result)
        /\ IsNum(wacc.cost_of_debt.value)
        /\ ConvexCombinationOfCosts

----------------------------------------------------------------------------
(* Properties of GrowthCalculator (SpecCalc)                               *)

(* The year count a lookback period names.                                 *)
YearCount(p) ==
    CASE p = "1y" -> 1
      [] p = "2y" -> 2
      [] p = "3y" -> 3
      [] p = "5y" -> 5
      [] p = "10y" -> 10

(* C10: for every lookback period, with y its year count, calculate_growth *)
(* returns None whenever the first row of the returned series is younger   *)
(* than y * 365 * 0.8 days; no growth figure is computed over a shorter    *)
(* series.                                                                 *)
C10_InsufficientHistoryIsAbsent ==
    (/\ calc_result # Pending
     /\ hist_start.tag = "Rows"
     /\ 10 * hist_start.age < YearCount(calc_period) * DAYS_PER_YEAR * 8)
    => (calc_result = None)

(* C11: a "3y" request is checked with year count 3: a 3-year growth value *)
(* is produced only if the first row of the series is at least             *)
(* 3 * 365 * 0.8 days old.                                                 *)
C11_ThreeYearWindowNeedsThreeYears ==
    (calc_period = "3y" /\ calc_result # Pending /\ calc_result # None)
    => (10 * hist_start.age >= 3 * DAYS_PER_YEAR * 8)

(* Both series are non-empty, with a Close, and the first row of the       *)
(* requested series is old enough for the period.                          *)
SufficientHistory ==
    /\ hist_start.tag = "Rows" /\ hist_end.tag = "Rows"
    /\ IsNum(hist_start.close) /\ IsNum(hist_end.close)
    /\ 10 * hist_start.age >= YearCount(calc_period) * DAYS_PER_YEAR * 8

(* C25: with both series non-empty and sufficient history calculate_growth *)
(* returns (latest close - earliest close) / earliest close * 100 when the *)
(* earliest close is positive and None when it is not; it returns None     *)
(* when either series is empty.                                            *)
C25_GrowthIsRelativeChangeOfCloses ==
    calc_result # Pending =>
        /\ (hist_start = Empty \/ hist_end = Empty) => calc_result = None
        /\ (SufficientHistory /\ hist_start.close.v <= 0) => calc_result = None
        /\ (SufficientHistory /\ hist_start.close.v > 0) =>
              /\ IsNum(calc_result)
              /\ calc_result.v[1] * hist_start.close.v =
                    (hist_end.close.v - hist_start.close.v) * 100 * calc_result.v[2]

(* C25 witness: five years of history from 50.00 to 80.00, a growth of     *)
(* 60 percent.                                                             *)
C25_Witness ==
    /\ calc_period = "5y"
    /\ SufficientHistory
    /\ hist_start.close = Num(5000)
    /\ hist_end.close = Num(8000)
    /\ calc_result = Num(Frac(60, 1))

----------------------------------------------------------------------------
(* Properties of _calculate_growth_metrics (SpecMetrics)                   *)

(* A window whose fetch fails or whose series is empty or has no Close.    *)
WindowFails(w) ==
    \/ IsRaise(w.start)
    \/ IsRaise(w.end)
    \/ w.start = Empty
    \/ w.end = Empty
    \/ w.start.close = Absent
    \/ w.end.close = Absent

(* A window with prices at both ends and a first row old enough for every  *)
(* lookback period.                                                        *)
WindowUsable(w) ==
    /\ ~WindowFails(w)
    /\ w.start.age >= OldestAge
    /\ IsNum(w.start.close) /\ w.start.close.v > 0
    /\ IsNum(w.end.close)

(* The growth of a usable window in hundredths of a percent.               *)
WindowGrowth(w) ==
    RoundHalfEven((w.end.close.v - w.start.close.v) * 100 * 100, w.start.close.v)

----------------------------------------------------------------------------
(* Properties of PriceRange (SpecRange)                                    *)

(* C13: constructing a PriceRange with week_52_low >= week_52_high (equal  *)
(* values included) or with day_low > day_high raises a construction error *)
(* and yields no PriceRange.                                               *)
C13_InvalidRangeIsAConstructionError ==
    (/\ price_range # Pending
     /\ \/ range_args.week_52_low >= range_args.week_52_high
        \/ range_args.day_low > range_args.day_high)
    => price_range = Raise("ValueError")

(* C13 witness: PriceRange(50, 50, ...) with a valid day range raised.     *)
C13_Witness ==
    /\ price_range = Raise("ValueError")
    /\ range_args.week_52_low = Units(50)
    /\ range_args.week_52_high = Units(50)
    /\ range_args.day_low <= range_args.day_high

(* C14: calculate_position_in_range returns the price's linear fraction of *)
(* the 52-week range clamped to [0, 1]: 0 at or below the low, 1 at or     *)
(* above the high; when the stored high is not above the stored low it     *)
(* returns the fallback 0.5.                                               *)
C14_PositionIsClampedFraction ==
    position # Pending =>
        LET low   == price_range.week_52_low
            high  == price_range.week_52_high
            price == current_price.v
            pos   == position.v
        IN  IF high <= low THEN pos = <<1, 2>>
            ELSE /\ FLeq(<<0, 1>>, pos) /\ FLeq(pos, <<1, 1>>)
                 /\ (price <= low) => (pos = <<0, 1>>)
                 /\ (price >= high) => (pos = <<1, 1>>)
                 /\ (low < price /\ price < high) =>
                        (pos[1] * (high - low) = pos[2] * (price - low))

(* C14 witness: a range of 100.00 to 200.00 and a price of 500.00, which   *)
(* clamps to 1.                                                            *)
C14_Witness ==
    /\ position = Num(<<1, 1>>)
    /\ price_range.week_52_low = 10000
    /\ price_range.week_52_high = 20000
    /\ current_price = Num(50000)

(* C27: every constructed PriceRange has, on its stored (rounded) fields,  *)
(* week_52_low < week_52_high and day_low <= day_high, so that             *)
(* calculate_position_in_range never finds the high at or below the low.   *)
C27_StoredRangeIsStrictlyOrdered ==
    (price_range # Pending /\ price_range.tag = "PriceRange") =>
        /\ price_range.week_52_low < price_range.week_52_high
        /\ price_range.day_low <= price_range.day_high

----------------------------------------------------------------------------
(* Properties of SymbolValidator (SpecSymbol)                              *)

(* The characters of a str between its first and its last non-blank        *)
(* character.                                                              *)
Trimmed(chars) ==
    LET solid == {i \in DOMAIN chars : chars[i] \notin Whitespace}
    IN  IF solid = {} THEN <<>>
        ELSE SubSeq(chars,
                    CHOOSE i \in solid : \A j \in solid : i <= j,
                    CHOOSE i \in solid : \A j \in solid : i >= j)

(* The length of a str after upper(): eszett counts twice.                 *)
UpperLen(chars) == Len(chars) + Cardinality({i \in DOMAIN chars : chars[i] = "eszett"})

(* C15: is_valid_symbol(s) is true exactly when s is a str that, trimmed   *)
(* and upper-cased, has 1 to 5 characters, all of them letters; an         *)
(* argument that is not a str is invalid.                                  *)
C15_ValidIffOneToFiveLetters ==
    is_valid # Pending =>
        (is_valid.b <=>
            /\ symbol.tag = "Str"
            /\ LET t == Trimmed(symbol.chars)
               IN  /\ 1 <= UpperLen(t) /\ UpperLen(t) <= 5
                   /\ \A i \in DOMAIN t : t[i] \in {"A", "a", "eszett"})

(* C15 witness: a str of 6 characters (blank, eszett, a, A, a, blank) that *)
(* trims to 4 characters and upper-cases to the 5 letters "SSAAA" is       *)
(* valid.                                                                  *)
C15_Witness ==
    /\ is_valid = Bool(TRUE)
    /\ symbol = Str(<<" ", "eszett", "a", "A", "a", " ">>)

----------------------------------------------------------------------------
(* Properties of the growth displays (SpecDisplay)                         *)

(* The values a consumer is given: stock_data's values for                 *)
(* display_stock_info, the fields of the GrowthMetrics (in thousandths)    *)
(* for format_growth_data.                                                 *)
Given(key) ==
    IF shown.consumer = "display_stock_info" THEN growth_values[key]
    ELSE LET metrics == MetricsOf(growth_values)
             field == CASE key = "growth_1y" -> metrics.one_year
                        [] key = "growth_2y" -> metrics.two_years
                        [] key = "growth_5y" -> metrics.five_years
                        [] key = "growth_10y" -> metrics.ten_years
         IN  IF field = None THEN None ELSE Num(10 * field.v)

(* Whether two given values are both present and closer than 0.01.         *)
BothAlike(k1, k2) ==
    /\ Given(k1) # None
    /\ Given(k2) # None
    /\ Abs(Given(k1).v - Given(k2).v) < 10

(* C16: every consumer shows the 5-year and the 10-year value as no-data   *)
(* when both are present and differ by less than 0.01, and retains both    *)
(* when they differ by 0.01 or more (and the 2-year check does not apply). *)
C16_FiveAndTenYearsSuppressedByEveryConsumer ==
    (shown # Pending /\ growth_values # None) =>
        /\ BothAlike("growth_5y", "growth_10y") =>
              (shown.rows.five_years = NoData /\ shown.rows.ten_years = NoData)
        /\ (/\ Given("growth_5y") # None
            /\ Given("growth_10y") # None
            /\ ~BothAlike("growth_5y", "growth_10y")
            /\ ~BothAlike("growth_2y", "growth_5y")) =>
              (shown.rows.five_years # NoData /\ shown.rows.ten_years # NoData)

(* C17: in display_stock_info, when the 2-year and the 5-year value are    *)
(* both present and differ by less than 0.01, the 2-year, 5-year and       *)
(* 10-year rows are all no-data, also when the 5-year and 10-year values   *)
(* are within 0.01 of each other.                                          *)
C17_TwoYearCheckSuppressesThreeRows ==
    (/\ shown # Pending
     /\ shown.consumer = "display_stock_info"
     /\ BothAlike("growth_2y", "growth_5y")) =>
        /\ shown.rows.two_years = NoData
        /\ shown.rows.five_years = NoData
        /\ shown.rows.ten_years = NoData

----------------------------------------------------------------------------
(* Properties of the ticker command (SpecCommand)                          *)

(* C18: for a symbol that fails the symbol validation, the ticker command  *)
(* reports 'Invalid symbol format', issues no provider fetch and ends with *)
(* exit code 0.                                                            *)
C18_InvalidSymbolIsRejectedBeforeAnyFetch ==
    (command # Pending /\ ~IsValidSymbol(argv_symbol)) =>
        /\ command.fetches = <<>>
        /\ \E i \in DOMAIN command.output : command.output[i] = "Invalid symbol format"
        /\ command.exit_code = 0

----------------------------------------------------------------------------
(* Properties of StockInfo (SpecStock)                                     *)

(* Whether a stored field is absent when the argument is, and otherwise    *)
(* the argument rounded to 2 decimal places: a whole number of hundredths  *)
(* at most half a hundredth away from the argument.                        *)
RoundedToHundredths(stored, given) ==
    IF given = None THEN stored = None
    ELSE /\ IsNum(stored)
         /\ 2 * Abs(100 * given.v[1] - stored.v * given.v[2]) <= given.v[2]

(* C20: in every constructed StockInfo dividend_yield and dividend_rate    *)
(* are absent or rounded to 2 decimal places, and pays_dividend is true    *)
(* exactly when a stored dividend_rate or a stored dividend_yield is       *)
(* present and greater than 0.                                             *)
C20_DividendsRoundedAndPaysDividend ==
    /\ (stock_info # Pending /\ ~IsRaise(stock_info)) =>
          /\ RoundedToHundredths(stock_info.dividend_yield, stock_args.dividend_yield)
          /\ RoundedToHundredths(stock_info.dividend_rate, stock_args.dividend_rate)
    /\ pays_dividend # Pending =>
          (pays_dividend.b <=>
              \/ (IsNum(stock_info.dividend_rate) /\ stock_info.dividend_rate.v > 0)
              \/ (IsNum(stock_info.dividend_yield) /\ stock_info.dividend_yield.v > 0))

(* C20 witness: a dividend rate of 0.005, stored as 0.00, and a yield of   *)
(* 2.345, stored as 2.34: the stock pays a dividend by its yield only.     *)
C20_Witness ==
    /\ pays_dividend = Bool(TRUE)
    /\ stock_args.dividend_rate = Num(Frac(5, 1000))
    /\ stock_info.dividend_rate = Num(0)
    /\ stock_info.dividend_yield = Num(234)

----------------------------------------------------------------------------
(* Properties of YFinanceStockService.get_stock_info (SpecService)         *)

(* Basic quote data is available: info names the symbol and the two-day    *)
(* history has a last row with a positive close.                           *)
QuoteAvailable ==
    /\ upstream.info.tag = "Info" /\ upstream.info.named
    /\ upstream.hist.tag = "Quote" /\ upstream.hist.close > 0

(* The growth computation of window p fails: a history fetch raises.       *)
GrowthWindowFails(p) ==
    IsRaise(upstream.windows[p].start) \/ IsRaise(upstream.windows[p].end)

(* The price-range computation fails or has no data: the 52-week fetch     *)
(* raises or is empty, or the bounds make no valid range.                  *)
PriceRangeFails ==
    \/ upstream.hist_52w.tag # "Year"
    \/ upstream.hist_52w.low >= upstream.hist_52w.high
    \/ upstream.hist.low > upstream.hist.high

(* The financial-history computation fails or has no data: the statement   *)
(* fetch raises or the income statements have no columns.                  *)
FinancialHistoryFails ==
    \/ IsRaise(upstream.statements)
    \/ /\ upstream.statements.quarterly_financials.columns = <<>>
       /\ \/ upstream.statements.annual_financials.columns = <<>>
          \/ upstream.statements.annual_balance_sheet.columns = <<>>

(* C19: when basic quote data is available get_stock_info returns a        *)
(* StockInfo (no exception, not None) whatever happens to the growth       *)
(* metrics, the price range and the financial history; the growth value of *)
(* a failed window, a failed price range and a failed financial history    *)
(* are None in it; and the quote, the growth values of the windows that    *)
(* did not fail and a price range that did not fail are present whatever   *)
(* failed elsewhere.                                                       *)
C19_FailedComponentIsNullInStockInfo ==
    (service_result # Pending /\ QuoteAvailable) =>
        /\ service_result.tag = "StockInfo"
        /\ service_result.current_price =
               Num(QuantizeCents(upstream.hist.close))
        /\ service_result.growth_metrics # None
        /\ \A p \in LookbackPeriods :
               GrowthWindowFails(p) <=>
                   GetGrowth(service_result.growth_metrics, p) = None
        /\ PriceRangeFails <=> service_result.price_range = None
        /\ FinancialHistoryFails => service_result.financial_history = None

(* C19 witness: the 52-week fetch raised, the statement fetch raised and   *)
(* the five-year window failed; the result is a StockInfo without price    *)
(* range and financial history, with a one-year and no five-year growth.   *)
C19_Witness ==
    /\ service_result # Pending
    /\ QuoteAvailable
    /\ IsRaise(upstream.hist_52w)
    /\ IsRaise(upstream.statements)
    /\ GrowthWindowFails("5y") /\ ~GrowthWindowFails("1y")
    /\ service_result.tag = "StockInfo"
    /\ service_result.price_range = None
    /\ service_result.financial_history = None
    /\ service_result.growth_metrics.five_years = None
    /\ service_result.growth_metrics.one_year = Num(6000)

----------------------------------------------------------------------------
(* Properties of _calculate_financial_history (SpecHistory)                *)

(* The periods of the returned history; none when it returned None.        *)
AnnualResult ==
    IF history_result = None THEN <<>> ELSE history_result.annual_periods

QuarterlyResult ==
    IF history_result = None THEN <<>> ELSE history_result.quarterly_periods

(* The columns read whose lookups raised no error.                         *)
ReadWithoutError(kwargs_list) ==
    SelectSeq(kwargs_list, LAMBDA entry : ~IsRaise(entry))

(* Whether the periods are those of the columns read without error, one    *)
(* each and in their order, carrying the cash-flow fields.                 *)
OnePeriodEach(periods, kwargs_list) ==
    LET kept == ReadWithoutError(kwargs_list)
    IN  /\ Len(periods) = Len(kept)
        /\ \A i \in DOMAIN periods :
              /\ periods[i].date = kept[i].date
              /\ "operating_cash_flow" \in DOMAIN periods[i]
              /\ "free_cash_flow" \in DOMAIN periods[i]

(* C21: a period is dropped only when its own lookups raise an error:      *)
(* every other column among the first 4 of the income statement yields     *)
(* exactly one FinancialPeriod, carrying its cash-flow fields, in the      *)
(* returned list.                                                          *)
C21_PeriodDroppedOnlyOnItsOwnLookupError ==
    history_result # Pending =>
        /\ OnePeriodEach(AnnualResult, period_kwargs.annual)
        /\ OnePeriodEach(QuarterlyResult, period_kwargs.quarterly)

(* The first of the candidate rows, in priority order, that holds a        *)
(* number for the date; None when no candidate does.                       *)
FirstNumber(frame, names, date) ==
    LET usable == SelectSeq(names, LAMBDA n : n \in DOMAIN frame.cell /\ frame.cell[n] # NaN)
    IN  IF date \notin ColumnSet(frame) \/ usable = <<>> THEN None
        ELSE frame.cell[Head(usable)]

(* Whether the values of the concepts with aliases handed to               *)
(* FinancialPeriod for a period are the first numbers of their candidates. *)
AliasesResolved(kwargs, balance_sheet, shares_names, cash_flow) ==
    /\ kwargs.total_liabilities = FirstNumber(balance_sheet, <<"Total Liabilities Net Minority Interest", "Total Liab">>, kwargs.date)
    /\ kwargs.total_equity = FirstNumber(balance_sheet, <<"Stockholders Equity", "Total Stockholder Equity">>, kwargs.date)
    /\ kwargs.shares_outstanding = FirstNumber(balance_sheet, shares_names, kwargs.date)
    /\ kwargs.operating_cash_flow = FirstNumber(cash_flow, <<"Operating Cash Flow", "Total Cash From Operating Activities">>, kwargs.date)
    /\ kwargs.investing_cash_flow = FirstNumber(cash_flow, <<"Investing Cash Flow", "Total Cash From Investing Activities">>, kwargs.date)
    /\ kwargs.financing_cash_flow = FirstNumber(cash_flow, <<"Financing Cash Flow", "Total Cash From Financing Activities">>, kwargs.date)
    /\ kwargs.changes_in_cash = FirstNumber(cash_flow, <<"Changes In Cash", "Net Change In Cash">>, kwargs.date)

(* C22: for every period the aggregator reads, each concept with aliases   *)
(* (total liabilities, total equity, shares outstanding, the cash-flow     *)
(* categories) gets the value of the first candidate row, in priority      *)
(* order, that holds a number for the period, and None only when no        *)
(* candidate holds a number.                                               *)
C22_AliasWithANumberIsTaken ==
    (history_result # Pending /\ ~IsRaise(statement_data)) =>
        /\ \A i \in DOMAIN period_kwargs.annual :
              ~IsRaise(period_kwargs.annual[i]) =>
                  AliasesResolved(period_kwargs.annual[i],
                                  statement_data.annual_balance_sheet,
                                  <<"Share Issued">>,
                                  statement_data.annual_cash_flow)
        /\ \A i \in DOMAIN period_kwargs.quarterly :
              ~IsRaise(period_kwargs.quarterly[i]) =>
                  AliasesResolved(period_kwargs.quarterly[i],
                                  statement_data.quarterly_balance_sheet,
                                  <<"Ordinary Shares Number", "Share Issued">>,
                                  statement_data.quarterly_cash_flow)

(* The free cash flow of a period by the derivation rule, from the cash-   *)
(* flow statement and the operating cash flow the period carries: the      *)
(* direct row; else operating cash flow + capital expenditure when both    *)
(* are numbers; else None.                                                 *)
DerivedFreeCashFlow(kwargs, cash_flow) ==
    IF kwargs.date \notin ColumnSet(cash_flow) THEN None
    ELSE IF "Free Cash Flow" \in DOMAIN cash_flow.cell
    THEN ToDecimal(cash_flow.cell["Free Cash Flow"])
    ELSE LET capex == ToDecimal(Lookup(cash_flow, <<"Capital Expenditures", "Capital Expenditure">>, kwargs.date))
         IN  IF kwargs.operating_cash_flow # None /\ capex # None
             THEN Num(kwargs.operating_cash_flow.v + capex.v)
             ELSE None

MostRecentFour(frame) ==
    {d \in ColumnSet(frame) : Cardinality({e \in ColumnSet(frame) : e > d}) < 4}

(* Whether a list (of periods, or of the arguments of the periods read)    *)
(* holds at most 4 entries, all of the four most recent upstream periods,  *)
(* in strictly descending order of date.                                   *)
FourMostRecentFirst(entries, frame) ==
    LET dated == SelectSeq(entries, LAMBDA entry : ~IsRaise(entry))
    IN  /\ Len(entries) <= 4
        /\ \A i \in DOMAIN dated : dated[i].date \in MostRecentFour(frame)
        /\ \A i, j \in DOMAIN dated : i < j => dated[i].date > dated[j].date

----------------------------------------------------------------------------
(* Properties of the data-quality check (SpecQuality)                      *)

(* The value, in millions, is more than factor times the market cap, in    *)
(* millions.                                                               *)
OverMarketCap(value, factor) ==
    LET market_cap_millions == Frac(report_info.market_cap.v, MILLION)
    IN  /\ value # None
        /\ value.v * market_cap_millions[2] > market_cap_millions[1] * factor * 100

Flagged(kind, metric, i) ==
    \E k \in DOMAIN report.warnings : report.warnings[k] = Warning(kind, metric, i)

(* C26: with a positive market cap the check flags every annual period     *)
(* whose revenue is over 100 times or whose total assets are over 500      *)
(* times the market cap and every quarterly period whose revenue is over   *)
(* 50 times or whose total assets are over 500 times the market cap; at    *)
(* most 3 warnings are printed; and the values of the periods are shown as *)
(* stored.                                                                 *)
C26_EverySuspectPeriodIsFlagged ==
    (/\ report # Pending
     /\ report_info.financial_history # None
     /\ report_info.market_cap # None
     /\ report_info.market_cap.v > 0) =>
        LET annual == report_info.financial_history.annual_periods
            quarterly == report_info.financial_history.quarterly_periods
        IN  /\ \A i \in DOMAIN annual :
                  /\ OverMarketCap(annual[i].total_revenue, 100) => Flagged("annual", "revenue", i)
                  /\ OverMarketCap(annual[i].total_assets, 500) => Flagged("annual", "assets", i)
            /\ \A i \in DOMAIN quarterly :
                  /\ OverMarketCap(quarterly[i].total_revenue, 50) => Flagged("quarterly", "revenue", i)
                  /\ OverMarketCap(quarterly[i].total_assets, 500) => Flagged("quarterly", "assets", i)
            /\ Len(report.printed) <= 3
            /\ report.annual_shown = annual
            /\ report.quarterly_shown = quarterly

----------------------------------------------------------------------------
(* Properties of the growth series of the tables (SpecTable)               *)

(* C28: for every period list and every balance-sheet metric the           *)
(* formatter's _calculate_growth_rates returns the series that             *)
(* FinancialHistory._calculate_growth_rates returns.                       *)
C28_FormatterGrowthEqualsHistoryGrowth ==
    table_series # Pending => table_series.formatter = table_series.history

=============================================================================
